---- MODULE Spec2Model ----
(***************************************************************************)
(* Agenda Timeline Engine of activity_management.                          *)
(*                                                                         *)
(* Forward direction (scripts/actions/agenda_generator.py):                *)
(*   distribute_empty_durations  fills the durations of the special        *)
(*                               sessions that have none;                  *)
(*   insert_special_sessions     appends the special sessions anchored at  *)
(*                               one insertion point;                      *)
(*   generate_agenda             walks the speaker list and builds the     *)
(*                               timed rows.                               *)
(*                                                                         *)
(* Reverse direction (scripts/actions/parse_agenda_docx.py):                *)
(*   _match_special_title        classifies a row by the ordered rule list; *)
(*   _add_special                appends a special session unless a         *)
(*                               duplicate is already listed;               *)
(*   parse_agenda                walks the rows of the agenda table and     *)
(*                               rebuilds the settings and the speakers.    *)
(* Program lookup (scripts/core/data_util.py): load_program_by_id.          *)
(*                                                                         *)
(* A clock time "HH:MM" is the pair <<h, m>>.  A datetime of the event day  *)
(* is the number of minutes since that day's midnight (it may pass 1440).  *)
(* A missing duration (JSON null / absent key, Python None) is Null.       *)
(***************************************************************************)
EXTENDS Integers, Sequences, FiniteSets, TLC

VARIABLES
    \* agenda_generator.py
    given,      \* agenda_settings.json as loaded (the file is never written)
    config,     \* the config dict, changed in place by the allocator
    speakers,   \* the speaker list read from speakers.csv
    agenda,     \* the rows generate_agenda returned
    log,        \* the line the allocator printed last
    times,      \* what compute_times and compute_speaker_times returned
    pc,
    \* parse_agenda_docx.py
    cls,        \* one call of _match_special_title: its arguments and result
    dd,         \* the lists a sequence of _add_special calls works on
    table,      \* the rows of the agenda table (time, topic, speaker cells)
    loop,       \* the locals of parse_agenda's row loop
    program,    \* what parse_agenda returned
    ppc,
    \* data_util.py
    lk,         \* one call of load_program_by_id: its arguments and outcome
    \* generate_agenda.py
    ga          \* one call of gen_agenda_rows: the event and the rows built

forwardVars == <<given, config, speakers, agenda, log, times, pc>>
classifyVars == <<cls>>
dedupeVars == <<dd>>
parserVars == <<table, loop, program, ppc>>
lookupVars == <<lk>>
rowsVars == <<ga>>

vars ==
    <<forwardVars, classifyVars, dedupeVars, parserVars, lookupVars, rowsVars>>

\* A part of the repository that takes no part in a run.
ForwardIdle ==
    /\ given = "idle" /\ config = "idle" /\ speakers = "idle"
    /\ agenda = "idle" /\ log = "idle" /\ times = "idle" /\ pc = "idle"
ClassifyIdle == cls = "idle"
DedupeIdle == dd = "idle"
ParserIdle == table = "idle" /\ loop = "idle" /\ program = "idle" /\ ppc = "idle"
LookupIdle == lk = "idle"
RowsIdle == ga = "idle"

\* ---------------------------------------------------------------- bounds
MaxSpeakers == 2
MaxSpecial == 2

\* ------------------------------------------------------------- constants
\* None / JSON null in the "duration" field.
Null == -1
\* The closing anchor generate_agenda passes to its last insertion.
EndOfDay == 999

\* ------------------------------------------------------------ time utils
\* datetime.strptime(t, "%H:%M"), as minutes since midnight.
ToMinutes(t) == t[1] * 60 + t[2]

\* datetime.strftime("%H:%M") of a datetime given as minutes since the
\* event day's midnight: the date part is dropped, so the hour wraps at 24.
Strftime(m) == <<(m \div 60) % 24, m % 60>>

\* Python 3 round(a / b) for a >= 0, b >= 1: nearest integer, a tie going
\* to the even neighbour.
PyRound(a, b) ==
    LET q == a \div b
        r == a % b
    IN  IF 2 * r < b THEN q
        ELSE IF 2 * r > b THEN q + 1
        ELSE IF q % 2 = 0 THEN q ELSE q + 1

\* ------------------------------------------------------------- allocator
\* `not s.get("duration")`: None, a missing key and 0 are all falsy.
IsEmpty(s) == s.duration = Null \/ s.duration = 0

RECURSIVE SumKnown(_, _)
\* The loop of lines 48-52: the durations of the non-empty sessions, summed.
SumKnown(list, i) ==
    IF i > Len(list) THEN 0
    ELSE (IF IsEmpty(list[i]) THEN 0 ELSE list[i].duration) + SumKnown(list, i + 1)

TotalMinutes(cfg) == ToMinutes(cfg.end_time) - ToMinutes(cfg.start_time)

TotalKnown(cfg, speaker_count) ==
    speaker_count * cfg.speaker_minutes + SumKnown(cfg.special_sessions, 1)

\* Mutant of Remaining: the known special durations are not subtracted.
RemainingSpeakersOnly(cfg, speaker_count) ==
    TotalMinutes(cfg) - speaker_count * cfg.speaker_minutes

Remaining(cfg, speaker_count) == TotalMinutes(cfg) - TotalKnown(cfg, speaker_count)

EmptyCount(list) == Cardinality({i \in 1..Len(list) : IsEmpty(list[i])})

\* Mutant of FillEmpty: the loop runs over config["special_sessions"] instead
\* of empty_items.
FillEvery(list, avg_time) ==
    [i \in 1..Len(list) |-> [list[i] EXCEPT !.duration = avg_time]]

\* Lines 62-63: every entry of empty_items gets avg_time; the entries are the
\* session objects themselves, so the config's list is changed in place.
FillEmpty(list, avg_time) ==
    [i \in 1..Len(list) |->
        IF IsEmpty(list[i]) THEN [list[i] EXCEPT !.duration = avg_time] ELSE list[i]]

\* distribute_empty_durations(config, speaker_count): the config returned and
\* the line printed.
distribute_empty_durations(cfg, speaker_count) ==
    LET remaining == Remaining(cfg, speaker_count)
        n == EmptyCount(cfg.special_sessions)
    IN  IF remaining < 0
        THEN [config |-> cfg, log |-> <<"warn", -remaining>>]
        ELSE IF n > 0
        THEN LET avg_time == PyRound(remaining, n)
             IN  [config |-> [cfg EXCEPT !.special_sessions = FillEmpty(@, avg_time)],
                  log |-> <<"info", remaining, avg_time>>]
        ELSE [config |-> cfg, log |-> <<"none">>]

\* -------------------------------------------------------------- composer
SpecialRow(ag, cur, s) ==
    [kind |-> "special",
     session_id |-> Len(ag) + 1,
     start_time |-> Strftime(cur),
     end_time |-> Strftime(cur + s.duration),
     session_title |-> s.title]

TalkRow(ag, cur, minutes, sp) ==
    [kind |-> "talk",
     session_id |-> Len(ag) + 1,
     start_time |-> Strftime(cur),
     end_time |-> Strftime(cur + minutes),
     session_title |-> sp.title]

\* Line 82: the session is anchored at this insertion point.
\* Mutant of Anchored: >= in place of ==.
AnchoredAtOrAfter(s, current_index) == s.after_speaker >= current_index

Anchored(s, current_index) == s.after_speaker = current_index

RECURSIVE InsertFromStale(_, _, _, _, _)
\* Mutant of insert_special_sessions: line 92 (current_time = end_time) is
\* missing, so the cursor is never advanced.
InsertFromStale(ag, cur, current_index, special_list, i) ==
    IF i > Len(special_list) THEN [agenda |-> ag, cur |-> cur, ok |-> TRUE]
    ELSE LET s == special_list[i]
         IN  IF Anchored(s, current_index)
             THEN IF s.duration = Null
                  THEN [agenda |-> ag, cur |-> cur, ok |-> FALSE]
                  ELSE InsertFromStale(Append(ag, SpecialRow(ag, cur, s)),
                                       cur, current_index, special_list, i + 1)
             ELSE InsertFromStale(ag, cur, current_index, special_list, i + 1)

insert_without_advance(ag, cur, current_index, special_list) ==
    InsertFromStale(ag, cur, current_index, special_list, 1)

RECURSIVE InsertFrom(_, _, _, _, _)
\* The loop of insert_special_sessions from list position i on.  A matching
\* session without a duration makes timedelta(minutes=None) raise TypeError:
\* ok is FALSE and the loop is left.
InsertFrom(ag, cur, current_index, special_list, i) ==
    IF i > Len(special_list) THEN [agenda |-> ag, cur |-> cur, ok |-> TRUE]
    ELSE LET s == special_list[i]
         IN  IF Anchored(s, current_index)
             THEN IF s.duration = Null
                  THEN [agenda |-> ag, cur |-> cur, ok |-> FALSE]
                  ELSE InsertFrom(Append(ag, SpecialRow(ag, cur, s)),
                                  cur + s.duration, current_index, special_list, i + 1)
             ELSE InsertFrom(ag, cur, current_index, special_list, i + 1)

\* Mutant of insert_special_sessions: the list is walked backwards.
insert_backwards(ag, cur, current_index, special_list) ==
    InsertFrom(ag, cur, current_index,
               [i \in 1..Len(special_list) |-> special_list[Len(special_list) + 1 - i]], 1)

insert_special_sessions(ag, cur, current_index, special_list) ==
    InsertFrom(ag, cur, current_index, special_list, 1)

RECURSIVE SpeakerLoopReversed(_, _, _, _)
\* Mutant of SpeakerLoop: the list is walked from its last entry to its first.
SpeakerLoopReversed(st, cfg, spk, j) ==
    IF ~st.ok \/ j > Len(spk) THEN st
    ELSE LET sp == spk[Len(spk) + 1 - j]
             ag == Append(st.agenda, TalkRow(st.agenda, st.cur, cfg.speaker_minutes, sp))
             cur == st.cur + cfg.speaker_minutes
         IN  SpeakerLoopReversed(
                 insert_special_sessions(ag, cur, sp.index, cfg.special_sessions),
                 cfg, spk, j + 1)

RECURSIVE SpeakerLoop(_, _, _, _)
\* `for sp in speakers` of generate_agenda, from list position j on.
SpeakerLoop(st, cfg, spk, j) ==
    IF ~st.ok \/ j > Len(spk) THEN st
    ELSE LET sp == spk[j]
             ag == Append(st.agenda, TalkRow(st.agenda, st.cur, cfg.speaker_minutes, sp))
             cur == st.cur + cfg.speaker_minutes
         IN  SpeakerLoop(insert_special_sessions(ag, cur, sp.index, cfg.special_sessions),
                         cfg, spk, j + 1)

\* generate_agenda(event_date, config, speakers): the rows built and whether
\* the call returned (ok) or raised.
generate_agenda(cfg, spk) ==
    LET opening == insert_special_sessions(<<>>, ToMinutes(cfg.start_time), 0,
                                           cfg.special_sessions)
        body == SpeakerLoop(opening, cfg, spk, 1)
    IN  IF ~body.ok THEN body
        ELSE insert_special_sessions(body.agenda, body.cur, EndOfDay,
                                     cfg.special_sessions)

\* ---------------------------------------------------------------- inputs
SessionTitleOf == <<"Remarks", "Intermission", "Survey & Post-test", "Group Photo">>
TalkTitleOf == <<"Talk1", "Talk2", "Talk3", "Talk4">>

SpeakerNos == {0, 1, 2, EndOfDay}
AnchorSet == {0, 1, 2, EndOfDay}
DurationSet == {Null, 0, 10}
StartTimes == {<<9, 0>>}
EndTimes == {<<9, 45>>, <<10, 0>>, <<10, 10>>}
SpeakerMinutesSet == {20, 30}

\* speakers.csv as read at lines 29-37: row j of the file, with its number.
SpeakerList(nos) ==
    [j \in 1..Len(nos) |-> [index |-> nos[j], title |-> TalkTitleOf[j]]]

SessionList(f) ==
    [i \in 1..Len(f) |->
        [after_speaker |-> f[i].a, title |-> SessionTitleOf[i], duration |-> f[i].d]]

SpeakerLists ==
    UNION {{SpeakerList(nos) : nos \in [1..k -> SpeakerNos]} : k \in 0..MaxSpeakers}

SessionLists ==
    UNION {{SessionList(f) : f \in [1..k -> [a : AnchorSet, d : DurationSet]]}
           : k \in 0..MaxSpecial}

Configs ==
    [start_time : StartTimes, end_time : EndTimes,
     speaker_minutes : SpeakerMinutesSet, special_sessions : SessionLists]

\* ------------------------------------------------- the two speaker timers
\* int(s.get("duration") or 0): a missing duration counts as no time.
DurationOrZero(s) == IF s.duration = Null THEN 0 ELSE s.duration

\* The loop "for s in specials: if after_speaker == n: cur += duration".
RECURSIVE AdvanceOver(_, _, _)
AdvanceOver(specials, n, cur) ==
    IF specials = <<>> THEN cur
    ELSE AdvanceOver(Tail(specials), n,
                     IF Head(specials).after_speaker = n
                     THEN cur + DurationOrZero(Head(specials)) ELSE cur)

\* Mutant of TimesLoop: the sessions after a speaker do not move the cursor.
RECURSIVE TimesLoopNoSessions(_, _, _, _, _)
TimesLoopNoSessions(specials, per, spk, cur, out) ==
    IF spk = <<>> THEN out
    ELSE LET no == Head(spk).index
             ending == cur + per
         IN  TimesLoopNoSessions(specials, per, Tail(spk), ending,
                 (no :> <<Strftime(cur), Strftime(ending)>>) @@ out)

\* The speaker loop both timers share: times[no] = (start, end), a later
\* speaker of the same number overwriting an earlier one, then the sessions
\* anchored after that number.  The speakers of speakers.csv carry no "name",
\* so no name key is written.
RECURSIVE TimesLoop(_, _, _, _, _)
TimesLoop(specials, per, spk, cur, out) ==
    IF spk = <<>> THEN out
    ELSE LET no == Head(spk).index
             ending == cur + per
         IN  TimesLoop(specials, per, Tail(spk),
                 AdvanceOver(specials, no, ending),
                 (no :> <<Strftime(cur), Strftime(ending)>>) @@ out)

NoTimes == <<>>

compute_times(settings, spk) ==
    TimesLoop(settings.special_sessions, settings.speaker_minutes, spk,
              AdvanceOver(settings.special_sessions, 0,
                          ToMinutes(settings.start_time)),
              NoTimes)

\* "if not settings or not speakers: return {}", then the same computation.
compute_speaker_times(settings, spk) ==
    IF spk = <<>> THEN NoTimes
    ELSE TimesLoop(settings.special_sessions, settings.speaker_minutes, spk,
                   AdvanceOver(settings.special_sessions, 0,
                               ToMinutes(settings.start_time)),
                   NoTimes)

\* ----------------------------------------------------------- transitions
Loaded(cfgs, spks) ==
    /\ given \in cfgs
    /\ config = given
    /\ speakers \in spks
    /\ agenda = <<>>
    /\ log = <<"none">>
    /\ times = NoTimes
    /\ pc = "loaded"
    /\ ClassifyIdle /\ DedupeIdle /\ ParserIdle /\ LookupIdle /\ RowsIdle

Init == Loaded(Configs, SpeakerLists)

\* Line 67, and a second application of the allocator to its own output.
Distribute ==
    /\ pc \in {"loaded", "allocated"}
    /\ LET r == distribute_empty_durations(config, Len(speakers))
       IN  /\ config' = r.config
           /\ log' = r.log
    /\ pc' = IF pc = "loaded" THEN "allocated" ELSE "reallocated"
    /\ UNCHANGED <<given, speakers, agenda, times>>
    /\ UNCHANGED <<classifyVars, dedupeVars, parserVars, lookupVars, rowsVars>>

\* Mutant of Generate: insert_special_sessions consumes the sessions it
\* places (special_list.pop), so the caller's config loses them.
GenerateConsuming ==
    /\ pc \in {"allocated", "done"}
    /\ LET r == generate_agenda(config, speakers)
       IN  /\ agenda' = r.agenda
           /\ pc' = IF ~r.ok THEN "raised"
                    ELSE IF pc = "allocated" THEN "done" ELSE "regenerated"
           /\ config' = [config EXCEPT !.special_sessions =
                            SelectSeq(@, LAMBDA x :
                                \A p \in 1..Len(r.agenda) :
                                    r.agenda[p].session_title # x.title)]
    /\ UNCHANGED <<given, speakers, log, times>>
    /\ UNCHANGED <<classifyVars, dedupeVars, parserVars, lookupVars, rowsVars>>

\* Line 123: generate_agenda on the allocated config, and a second call with
\* the same arguments.  The function only reads config and speakers and
\* appends to its own local list.
Generate ==
    /\ pc \in {"allocated", "done"}
    /\ LET r == generate_agenda(config, speakers)
       IN  /\ agenda' = r.agenda
           /\ pc' = IF ~r.ok THEN "raised"
                    ELSE IF pc = "allocated" THEN "done" ELSE "regenerated"
    /\ UNCHANGED <<given, config, speakers, log, times>>
    /\ UNCHANGED <<classifyVars, dedupeVars, parserVars, lookupVars, rowsVars>>

\* build_mapping.py and make_speaker_letters.py time the speakers of the same
\* settings and speaker list the agenda was generated from.
ComputeTimes ==
    /\ pc = "done"
    /\ times' = [build_mapping |-> compute_times(config, speakers),
                 speaker_letters |-> compute_speaker_times(config, speakers)]
    /\ pc' = "timed"
    /\ UNCHANGED <<given, config, speakers, agenda, log>>
    /\ UNCHANGED <<classifyVars, dedupeVars, parserVars, lookupVars, rowsVars>>

Next == Distribute \/ Generate \/ ComputeTimes

Spec == Init /\ [][Next]_vars

\* ------------------------------------------------ the end-to-end scenario
ScenarioSpeakers == SpeakerList(<<1, 2, 3, 4>>)

ScenarioConfig ==
    [start_time |-> <<9, 0>>, end_time |-> <<12, 0>>, speaker_minutes |-> 30,
     special_sessions |->
        <<[after_speaker |-> 0, title |-> "Remarks", duration |-> 10],
          [after_speaker |-> 4, title |-> "Survey & Post-test", duration |-> Null]>>]

\* The scenario and its neighbours: other day ends, fewer speakers, the survey
\* at the closing anchor, other durations.
ScenarioConfigs ==
    {[start_time |-> <<9, 0>>, end_time |-> e, speaker_minutes |-> 30,
      special_sessions |->
         <<[after_speaker |-> 0, title |-> "Remarks", duration |-> d1],
           [after_speaker |-> a2, title |-> "Survey & Post-test", duration |-> d2]>>]
     : e \in {<<11, 0>>, <<12, 0>>, <<13, 0>>}, d1 \in {Null, 10},
       a2 \in {4, EndOfDay}, d2 \in {Null, 0, 50}}

ScenarioSpeakerLists == {SpeakerList([j \in 1..n |-> j]) : n \in 1..4}

InitScenario == Loaded(ScenarioConfigs, ScenarioSpeakerLists)

SpecScenario == InitScenario /\ [][Next]_vars

\* ------------------------------------------------- reading an agenda back
\* A row's title, start and end, as the claims speak of rows.
Shown(row) == <<row.session_title, row.start_time, row.end_time>>

IsTalk(row) == row.kind = "talk"
IsSpecial(row) == row.kind = "special"

\* The talk rows of the agenda, in output order.
TalkRows == SelectSeq(agenda, IsTalk)

\* The input titles are pairwise distinct, so a row's title names the session
\* or the speaker it was built from.
SessionOfRow(row) ==
    CHOOSE i \in 1..Len(given.special_sessions) :
        given.special_sessions[i].title = row.session_title

AnchorOfRow(row) == given.special_sessions[SessionOfRow(row)].after_speaker

SpeakerNumbers == {speakers[j].index : j \in 1..Len(speakers)}

\* The insertion points generate_agenda visits, in order: 0, each speaker's
\* number, 999.
InsertionPoints == <<0>> \o [j \in 1..Len(speakers) |-> speakers[j].index] \o <<EndOfDay>>

PointsAt(a) == Cardinality({p \in 1..Len(InsertionPoints) : InsertionPoints[p] = a})

\* Minutes from the first row's start to the last row's end, read off the rows.
Span == ToMinutes(agenda[Len(agenda)].end_time) - ToMinutes(agenda[1].start_time)

\* ------------------------------------------------------------------- C1
\* C1: in the end-to-end scenario (09:00-12:00, 30 minutes per talk, speakers
\* 1..4, Remarks 10 min before the first talk, Survey & Post-test without a
\* duration after speaker 4) the allocator reports remaining = 50 and gives the
\* survey 50 minutes, and generate_agenda returns exactly the six rows Remarks
\* 09:00-09:10, Talk1 09:10-09:40, Talk2 09:40-10:10, Talk3 10:10-10:40,
\* Talk4 10:40-11:10, Survey & Post-test 11:10-12:00, in this order.
C1_Scenario ==
    (given = ScenarioConfig /\ speakers = ScenarioSpeakers) =>
        /\ pc \in {"allocated", "done"} =>
              /\ log = <<"info", 50, 50>>
              /\ config.special_sessions[2].duration = 50
              /\ config.special_sessions[1].duration = 10
        /\ pc # "raised"
        /\ pc = "done" =>
              [p \in 1..Len(agenda) |-> Shown(agenda[p])] =
                 << <<"Remarks", <<9, 0>>, <<9, 10>> >>,
                    <<"Talk1", <<9, 10>>, <<9, 40>> >>,
                    <<"Talk2", <<9, 40>>, <<10, 10>> >>,
                    <<"Talk3", <<10, 10>>, <<10, 40>> >>,
                    <<"Talk4", <<10, 40>>, <<11, 10>> >>,
                    <<"Survey & Post-test", <<11, 10>>, <<12, 0>> >> >>

C1_Witness ==
    given = ScenarioConfig /\ speakers = ScenarioSpeakers /\ pc = "done" /\ Len(agenda) = 6

\* ------------------------------------------------------------------- C2
\* Minutes the allocator hands out are exactly the remaining ones.
ExactFill ==
    LET r == Remaining(given, Len(speakers))
        k == EmptyCount(given.special_sessions)
    IN  IF k = 0 THEN r = 0 ELSE k * PyRound(r, k) = r

\* Every special session has exactly one insertion point.
SinglyAnchored ==
    \A i \in 1..Len(given.special_sessions) :
        PointsAt(given.special_sessions[i].after_speaker) = 1

\* C2 as claimed: whenever remaining >= 0, the rows returned span exactly
\* end_time - start_time, whatever the number of sessions without a duration.
C2_SpanAlwaysExact ==
    (pc = "done" /\ Remaining(given, Len(speakers)) >= 0 /\ agenda # <<>>) =>
        Span = TotalMinutes(given)

\* C2 amended: when remaining >= 0, the remaining minutes are handed out
\* exactly (remaining = 0, or k >= 1 sessions lack a duration and
\* k * round(remaining / k) = remaining) and every special session is anchored
\* at exactly one insertion point, the rows returned span exactly
\* end_time - start_time.
C2_SpanExactWhenFilled ==
    (pc = "done" /\ Remaining(given, Len(speakers)) >= 0 /\ ExactFill /\ SinglyAnchored) =>
        /\ agenda # <<>>
        /\ Span = TotalMinutes(given)

C2_Witness ==
    /\ pc = "done"
    /\ Remaining(given, Len(speakers)) > 0
    /\ EmptyCount(given.special_sessions) = 2
    /\ ExactFill
    /\ SinglyAnchored
    /\ Len(speakers) >= 1

\* ------------------------------------------------------------------- C3
\* C3 as claimed: every row of a session anchored at 0 is before every talk
\* row, every row of a session anchored at 999 is after every talk row.
C3_OpeningFirstClosingLast ==
    pc = "done" =>
        \A p, q \in 1..Len(agenda) :
            (IsSpecial(agenda[p]) /\ IsTalk(agenda[q])) =>
                /\ AnchorOfRow(agenda[p]) = 0 => p < q
                /\ AnchorOfRow(agenda[p]) = EndOfDay => q < p

\* C3 amended: the rows of the sessions anchored at 0 are before every talk
\* row provided no speaker is numbered 0, and the rows of the sessions
\* anchored at 999 are after every talk row provided no speaker is numbered 999.
C3_OpeningFirstClosingLastUnlessNumbered ==
    pc = "done" =>
        \A p, q \in 1..Len(agenda) :
            (IsSpecial(agenda[p]) /\ IsTalk(agenda[q])) =>
                /\ (AnchorOfRow(agenda[p]) = 0 /\ 0 \notin SpeakerNumbers) => p < q
                /\ (AnchorOfRow(agenda[p]) = EndOfDay /\ EndOfDay \notin SpeakerNumbers)
                      => q < p

C3_Witness ==
    /\ pc = "done"
    /\ 0 \notin SpeakerNumbers
    /\ EndOfDay \notin SpeakerNumbers
    /\ Len(TalkRows) = 2
    /\ \E p, q \in 1..Len(agenda) :
          /\ IsSpecial(agenda[p]) /\ AnchorOfRow(agenda[p]) = 0
          /\ IsSpecial(agenda[q]) /\ AnchorOfRow(agenda[q]) = EndOfDay

\* ------------------------------------------------------------------- C4
\* C4 as claimed: n >= 1 speakers give exactly n talk rows, and the k-th talk
\* row is the row of the speaker whose number is k.
C4_TalkOfNumberK ==
    (pc = "done" /\ Len(speakers) >= 1) =>
        /\ Len(TalkRows) = Len(speakers)
        /\ \A k \in 1..Len(TalkRows) :
              \E j \in 1..Len(speakers) :
                  /\ speakers[j].index = k
                  /\ TalkRows[k].session_title = speakers[j].title

\* C4 amended: n >= 1 speakers give exactly n talk rows, and the k-th talk row
\* is the row of the k-th speaker of the list; it is the speaker numbered k
\* when the list is numbered 1..n in list order.
C4_TalkOfListPositionK ==
    (pc = "done" /\ Len(speakers) >= 1) =>
        /\ Len(TalkRows) = Len(speakers)
        /\ \A k \in 1..Len(TalkRows) :
              /\ TalkRows[k].session_title = speakers[k].title
              /\ (\A j \in 1..Len(speakers) : speakers[j].index = j) =>
                    \E j \in 1..Len(speakers) :
                        /\ speakers[j].index = k
                        /\ TalkRows[k].session_title = speakers[j].title

C4_Witness ==
    /\ pc = "done"
    /\ Len(speakers) = 2
    /\ speakers[1].index = 2
    /\ speakers[2].index = 1
    /\ Len(agenda) > 2

\* ------------------------------------------------------------------- C5
\* C5: the allocator is idempotent: applied to its own output it returns a
\* config with the same duration on every special session (also when the
\* first application assigned 0 or returned early on a deficit).
C5_AllocatorIdempotent ==
    [][(pc = "allocated" /\ pc' = "reallocated") => config' = config]_vars

\* The second application has run on the output of a first one that assigned 0
\* to a session that came without a duration.
C5_Witness ==
    /\ pc = "reallocated"
    /\ \E i \in 1..Len(given.special_sessions) :
          /\ given.special_sessions[i].duration = Null
          /\ config.special_sessions[i].duration = 0

\* ------------------------------------------------------------------- C6
\* C6 as claimed: on a deficit (remaining < 0) the allocator goes on as if
\* remaining were 0, so every session that arrived without a duration leaves
\* with duration 0 and no session reaches generate_agenda without one.
C6_DeficitFilledWithZero ==
    pc = "allocated" =>
        /\ Remaining(given, Len(speakers)) < 0 =>
              \A i \in 1..Len(given.special_sessions) :
                  given.special_sessions[i].duration = Null =>
                      config.special_sessions[i].duration = 0
        /\ \A i \in 1..Len(config.special_sessions) :
              config.special_sessions[i].duration # Null

\* ------------------------------------------------------------------- C7
\* C7 as claimed: the allocator changes nothing but the duration of the
\* sessions whose duration was null on entry; a pre-set duration, 0 included,
\* and every other field of the config stay as they were.
C7_OnlyNullDurationsChange ==
    pc = "allocated" =>
        /\ config.start_time = given.start_time
        /\ config.end_time = given.end_time
        /\ config.speaker_minutes = given.speaker_minutes
        /\ Len(config.special_sessions) = Len(given.special_sessions)
        /\ \A i \in 1..Len(given.special_sessions) :
              /\ config.special_sessions[i].title = given.special_sessions[i].title
              /\ config.special_sessions[i].after_speaker =
                    given.special_sessions[i].after_speaker
              /\ given.special_sessions[i].duration # Null =>
                    config.special_sessions[i].duration =
                       given.special_sessions[i].duration

\* ------------------------------------------------------------------- C8
NullCount(list) == Cardinality({i \in 1..Len(list) : list[i].duration = Null})

\* C8 as claimed: with remaining >= 0 and at least one null duration, every
\* null-duration session gets round(remaining / number of null sessions),
\* remaining being the window less speaker_count * speaker_minutes less the
\* non-null durations.
C8_AverageOverNullSessions ==
    (/\ pc = "allocated"
     /\ Remaining(given, Len(speakers)) >= 0
     /\ NullCount(given.special_sessions) >= 1) =>
        \A i \in 1..Len(given.special_sessions) :
            given.special_sessions[i].duration = Null =>
                config.special_sessions[i].duration =
                   PyRound(Remaining(given, Len(speakers)),
                           NullCount(given.special_sessions))

\* ------------------------------------------------------------------- C9
\* The sessions listed after (before) session i that share its anchor.
LaterAt(i) ==
    {j \in (i + 1)..Len(given.special_sessions) :
        given.special_sessions[j].after_speaker = given.special_sessions[i].after_speaker}

EarlierAt(i) ==
    {j \in 1..(i - 1) :
        given.special_sessions[j].after_speaker = given.special_sessions[i].after_speaker}

Least(S) == CHOOSE x \in S : \A y \in S : x <= y
Greatest(S) == CHOOSE x \in S : \A y \in S : y <= x

\* C9: at every insertion point the sessions sharing that anchor come out
\* next to each other and in the order of config.special_sessions: the row
\* after a session's row is the row of the next listed session with the same
\* anchor, the row before it that of the previous one.
C9_SameAnchorInListOrder ==
    pc = "done" =>
        \A p \in 1..Len(agenda) :
            IsSpecial(agenda[p]) =>
                LET i == SessionOfRow(agenda[p])
                IN  /\ LaterAt(i) # {} =>
                          /\ p < Len(agenda)
                          /\ IsSpecial(agenda[p + 1])
                          /\ SessionOfRow(agenda[p + 1]) = Least(LaterAt(i))
                    /\ EarlierAt(i) # {} =>
                          /\ p > 1
                          /\ IsSpecial(agenda[p - 1])
                          /\ SessionOfRow(agenda[p - 1]) = Greatest(EarlierAt(i))

\* Two sessions share an anchor after a speaker, the longer one listed first.
C9_Witness ==
    /\ pc = "done"
    /\ Len(config.special_sessions) = 2
    /\ config.special_sessions[1].after_speaker = 1
    /\ config.special_sessions[2].after_speaker = 1
    /\ config.special_sessions[1].duration > config.special_sessions[2].duration
    /\ \E p \in 1..Len(agenda) : IsSpecial(agenda[p])

\* ------------------------------------------------------------------ C10
\* The speaker a talk row was built from (titles are distinct).
SpeakerOfRow(row) ==
    CHOOSE j \in 1..Len(speakers) : speakers[j].title = row.session_title

\* The position in the agenda of the k-th talk row.
TalkPos(k) ==
    CHOOSE p \in 1..Len(agenda) :
        /\ IsTalk(agenda[p])
        /\ Cardinality({q \in 1..p : IsTalk(agenda[q])}) = k

\* The sessions anchored at a, in listed order.
AnchoredAt(a) ==
    SelectSeq([i \in 1..Len(given.special_sessions) |-> i],
              LAMBDA i : given.special_sessions[i].after_speaker = a)

\* The talk at position p takes [current_time, current_time + speaker_minutes),
\* current_time being where the row before it ended.
TalkSlot(p) ==
    /\ agenda[p].start_time =
          (IF p = 1 THEN given.start_time ELSE agenda[p - 1].end_time)
    /\ agenda[p].end_time =
          Strftime(ToMinutes(agenda[p].start_time) + given.speaker_minutes)

\* The rows right after position p are those of the sessions anchored at a, in
\* listed order, and the row after them is no further session of another
\* speaker's block.
FollowedByAnchored(p, a, last) ==
    LET block == AnchoredAt(a)
        next == p + Len(block) + 1
    IN  /\ \A t \in 1..Len(block) :
              /\ p + t <= Len(agenda)
              /\ IsSpecial(agenda[p + t])
              /\ SessionOfRow(agenda[p + t]) = block[t]
        /\ next <= Len(agenda) =>
              IF last THEN IsSpecial(agenda[next]) /\ AnchorOfRow(agenda[next]) = EndOfDay
              ELSE IsTalk(agenda[next])

\* C10 as claimed: whatever the order of the input list, the talk rows come
\* out in ascending speaker number, each in its slot and followed by the
\* sessions anchored to its speaker's number.
C10_AscendingNumberOrder ==
    pc = "done" =>
        /\ Len(TalkRows) = Len(speakers)
        /\ \A k, l \in 1..Len(TalkRows) :
              k < l => speakers[SpeakerOfRow(TalkRows[k])].index
                          <= speakers[SpeakerOfRow(TalkRows[l])].index
        /\ \A k \in 1..Len(TalkRows) :
              /\ TalkSlot(TalkPos(k))
              /\ FollowedByAnchored(TalkPos(k),
                                    speakers[SpeakerOfRow(TalkRows[k])].index,
                                    k = Len(TalkRows))

\* C10 amended: the composer processes the speakers in list order, without
\* sorting: the k-th talk row is that of the k-th speaker of the list (so the
\* numbers ascend when the list is in ascending number order), each talk takes
\* [current_time, current_time + speaker_minutes) and is immediately followed
\* by the sessions anchored to that speaker's number.
C10_ListOrder ==
    pc = "done" =>
        /\ Len(TalkRows) = Len(speakers)
        /\ \A k \in 1..Len(TalkRows) :
              /\ SpeakerOfRow(TalkRows[k]) = k
              /\ TalkSlot(TalkPos(k))
              /\ FollowedByAnchored(TalkPos(k), speakers[k].index, k = Len(TalkRows))
        /\ (\A j \in 1..(Len(speakers) - 1) : speakers[j].index <= speakers[j + 1].index) =>
              \A k, l \in 1..Len(TalkRows) :
                  k < l => speakers[SpeakerOfRow(TalkRows[k])].index
                              <= speakers[SpeakerOfRow(TalkRows[l])].index

\* An unsorted list, with a session anchored to each of its two speakers.
C10_Witness ==
    /\ pc = "done"
    /\ Len(speakers) = 2
    /\ speakers[1].index = 2
    /\ speakers[2].index = 1
    /\ Len(agenda) = 4
    /\ IsSpecial(agenda[2])
    /\ IsSpecial(agenda[4])

\* ------------------------------------------------------------------ C11
\* C11: in every sequence generate_agenda returns the first row starts at
\* config.start_time and every later row starts at the end time of the row
\* before it: no overlap, no gap, whatever the mix of talks and sessions.
C11_Contiguous ==
    pc = "done" =>
        \A p \in 1..Len(agenda) :
            agenda[p].start_time =
                (IF p = 1 THEN config.start_time ELSE agenda[p - 1].end_time)

\* Talks and sessions alternate, and a session of more than 0 minutes sits
\* between two talks.
C11_Witness ==
    /\ pc = "done"
    /\ Len(agenda) = 4
    /\ IsSpecial(agenda[1]) /\ IsTalk(agenda[2])
    /\ IsSpecial(agenda[3]) /\ IsTalk(agenda[4])
    /\ agenda[3].start_time # agenda[3].end_time

MaxPrograms == 2

DigitChar == <<"0", "1", "2", "3", "4", "5", "6", "7", "8", "9">>

NoneId == [kind |-> "none", n |-> 0, s |-> <<>>]
IntId(n) == [kind |-> "int", n |-> n, s |-> <<>>]
StrId(s) == [kind |-> "str", n |-> 0, s |-> s]

RECURSIVE Digits(_)
Digits(n) ==
    IF n < 10 THEN <<DigitChar[n + 1]>>
    ELSE Digits(n \div 10) \o <<DigitChar[(n % 10) + 1]>>

\* str(x) of an int or a str.
Str(v) == IF v.kind = "int" THEN Digits(v.n) ELSE v.s

RECURSIVE LStrip(_)
LStrip(s) == IF s # <<>> /\ Head(s) = " " THEN LStrip(Tail(s)) ELSE s

RECURSIVE RStrip(_)
RStrip(s) ==
    IF s # <<>> /\ s[Len(s)] = " " THEN RStrip(SubSeq(s, 1, Len(s) - 1)) ELSE s

\* str.strip()
Strip(s) == RStrip(LStrip(s))

\* Lines 83-87: the test the loop applies to one program.
IdMatches(prog, target) ==
    /\ prog.id.kind # "none"
    /\ Strip(Str(prog.id)) = target

\* Mutant of MatchIndex: the loop keeps the last program that matches.
LastMatchIndex(programs, target) ==
    LET hits == {i \in 1..Len(programs) : IdMatches(programs[i], target)}
    IN  IF hits = {} THEN 0 ELSE CHOOSE i \in hits : \A j \in hits : j <= i

\* Lines 83-87: the loop returns at the first program that matches; 0 when
\* it runs to its end.
MatchIndex(programs, target) ==
    LET hits == {i \in 1..Len(programs) : IdMatches(programs[i], target)}
    IN  IF hits = {} THEN 0 ELSE CHOOSE i \in hits : \A j \in hits : i <= j

Returned(i) == [kind |-> "returned", index |-> i, exc |-> "none"]
Raised(e) == [kind |-> "raised", index |-> 0, exc |-> e]
Pending == [kind |-> "pending", index |-> 0, exc |-> "none"]

\* Lines 68-92.  file.programs is what load_programs gives (lines 22-34):
\* [] for a file that is empty, unreadable or holds no entry.
load_program_by_id(program_id, file, fallback_to_first) ==
    IF ~file.exists THEN Raised("FileNotFoundError")
    ELSE IF file.programs = <<>> THEN Raised("ValueError")
    ELSE IF program_id.kind = "none"
         THEN IF fallback_to_first THEN Returned(1) ELSE Raised("LookupError")
    ELSE LET i == MatchIndex(file.programs, Strip(Str(program_id)))
         IN  IF i # 0 THEN Returned(i)
             ELSE IF fallback_to_first THEN Returned(1)
             ELSE Raised("LookupError")

IdValues ==
    {NoneId, IntId(1), IntId(2), IntId(12),
     StrId(<<"2">>), StrId(<<" ", "2">>), StrId(<<"2", " ">>),
     StrId(<<"1", "2">>), StrId(<<>>)}

Programs == [name : {"P"}, id : IdValues]

ProgramLists == UNION {[1..n -> Programs] : n \in 0..MaxPrograms}

ProgramFiles ==
    {[exists |-> FALSE, programs |-> <<>>]} \cup
    {[exists |-> TRUE, programs |-> p] : p \in ProgramLists}

InitLookup ==
    /\ lk \in [file : ProgramFiles, program_id : IdValues,
               fallback_to_first : BOOLEAN, out : {Pending}]
    /\ ForwardIdle /\ ClassifyIdle /\ DedupeIdle /\ ParserIdle /\ RowsIdle

Lookup ==
    /\ lk.out = Pending
    /\ lk' = [lk EXCEPT !.out =
                load_program_by_id(lk.program_id, lk.file, lk.fallback_to_first)]
    /\ UNCHANGED <<forwardVars, classifyVars, dedupeVars, parserVars, rowsVars>>

NextLookup == Lookup

SpecLookup == InitLookup /\ [][NextLookup]_vars

\* ------------------------------------------------------------------ C19
\* The requested id and a program's id are the same as stripped strings.
SameId(prog, program_id) ==
    /\ prog.id.kind # "none"
    /\ program_id.kind # "none"
    /\ Strip(Str(prog.id)) = Strip(Str(program_id))

NoProgramMatches ==
    \A i \in 1..Len(lk.file.programs) : ~SameId(lk.file.programs[i], lk.program_id)

ReturnsFirstMatch ==
    lk.out.kind = "returned" =>
        /\ SameId(lk.file.programs[lk.out.index], lk.program_id)
        /\ \A j \in 1..(lk.out.index - 1) :
               ~SameId(lk.file.programs[j], lk.program_id)

\* C19 as stated: with fallback_to_first=False the call returns the first
\* program whose stripped-string id equals the requested one, and raises
\* LookupError whenever no program matches or the requested id is None;
\* only with fallback_to_first=True may it return the first program instead.
C19_LookupErrorWheneverNoMatch ==
    lk.out # Pending =>
        /\ ~lk.fallback_to_first =>
               /\ ReturnsFirstMatch
               /\ NoProgramMatches =>
                      lk.out = Raised("LookupError")
               /\ ~NoProgramMatches => lk.out.kind = "returned"
        /\ lk.fallback_to_first =>
               (lk.out.kind = "returned" =>
                    \/ lk.out.index = 1
                    \/ ReturnsFirstMatch)

\* C19 (amended): the same, LookupError being raised when the file exists
\* and holds at least one program; a missing file raises FileNotFoundError
\* and a file without program entries raises ValueError, whatever the id
\* and the flag.
C19_LookupErrorWhenProgramsExist ==
    lk.out # Pending =>
        /\ ~lk.file.exists => lk.out = Raised("FileNotFoundError")
        /\ (lk.file.exists /\ lk.file.programs = <<>>) =>
               lk.out = Raised("ValueError")
        /\ (lk.file.exists /\ lk.file.programs # <<>>) =>
               /\ ~lk.fallback_to_first =>
                      /\ ReturnsFirstMatch
                      /\ NoProgramMatches => lk.out = Raised("LookupError")
                      /\ ~NoProgramMatches => lk.out.kind = "returned"
               /\ lk.fallback_to_first =>
                      /\ lk.out.kind = "returned"
                      /\ NoProgramMatches => lk.out.index = 1
                      /\ ~NoProgramMatches => ReturnsFirstMatch

\* Without fallback the int 2 is found in the second program, whose id is
\* the string " 2", the first program having another id.
C19_Witness ==
    /\ ~lk.fallback_to_first
    /\ lk.program_id = IntId(2)
    /\ Len(lk.file.programs) = 2
    /\ lk.file.programs[1].id = IntId(12)
    /\ lk.file.programs[2].id = StrId(<<" ", "2">>)
    /\ lk.out = Returned(2)

(***************************************************************************)
(* Session classifier: scripts/actions/parse_agenda_docx.py,                *)
(* _match_special_title over SPECIAL_RULES.                                 *)
(*                                                                         *)
(* A text is the sequence of its characters.  A Chinese character is       *)
(* written as its romanised syllable ("zhu", "chi" for the two characters  *)
(* of the word for host), two different characters never sharing a         *)
(* syllable here; a Latin word is written as one character, in the         *)
(* spelling the cell has ("Closing"); "nl" is the line break.              *)
(***************************************************************************)
MaxTextLen == 2

\* re.I: the patterns match whatever the case of a Latin word.
Fold(c) ==
    CASE c \in {"Closing", "CLOSING"} -> "closing"
      [] c \in {"Chair", "CHAIR"} -> "chair"
      [] c \in {"Moderator", "MODERATOR"} -> "moderator"
      [] OTHER -> c

FoldText(s) == [i \in 1..Len(s) |-> Fold(s[i])]

\* Line 17: _clean_text (the no-break space is the character " " here).
clean_text(s) == Strip(s)

\* Lines 58-70, in declaration order: the alternatives of each pattern, the
\* canonical title, is_end_of_day.
SPECIAL_RULES == <<
    [alts |-> {<<"wen", "juan">>, <<"hou", "ce">>,
               <<"hou", "ce", "yu", "wen", "juan">>,
               <<"wen", "juan", "yu", "hou", "ce">>,
               <<"closing">>, <<"jie", "yu3">>},
     title |-> "Survey", is_end |-> TRUE],
    [alts |-> {<<"zong", "he", "tao", "lun">>, <<"tao", "lun">>,
               <<"tao", "lun", "shi", "jian">>},
     title |-> "Discussion", is_end |-> FALSE],
    [alts |-> {<<"dui", "jiang">>},
     title |-> "Prize", is_end |-> FALSE],
    [alts |-> {<<"wu", "can">>, <<"wu", "xiu">>, <<"wu", "jian">>},
     title |-> "Lunch", is_end |-> FALSE],
    [alts |-> {<<"da", "he", "zhao">>, <<"he", "zhao">>},
     title |-> "Photo", is_end |-> FALSE],
    [alts |-> {<<"zhi", "ci">>, <<"kai", "chang">>},
     title |-> "Remarks", is_end |-> FALSE],
    [alts |-> {<<"zhu", "chi">>, <<"zhu", "chi", "ren">>},
     title |-> "Host", is_end |-> FALSE],
    [alts |-> {<<"xiu", "xi">>, <<"zhong", "chang", "xiu", "xi">>},
     title |-> "Break", is_end |-> FALSE],
    [alts |-> {<<"bao", "dao">>, <<"qian", "dao">>, <<"qian", "tui">>},
     title |-> "Registration", is_end |-> FALSE] >>

END_TITLES == {SPECIAL_RULES[k].title : k \in {j \in 1..Len(SPECIAL_RULES) :
                                                  SPECIAL_RULES[j].is_end}}

NoTitle == [title |-> "None", is_end |-> FALSE]

\* pat.search(hay): one of the alternatives is a substring of hay.
Search(alts, hay) ==
    LET folded == FoldText(hay)
    IN  \E a \in alts : \E i \in 1..(Len(hay) - Len(a) + 1) :
            SubSeq(folded, i, i + Len(a) - 1) = a

\* Mutant of MatchFrom: the rule list is walked from its end.
RECURSIVE MatchFromEnd(_, _)
MatchFromEnd(k, hay) ==
    LET j == Len(SPECIAL_RULES) + 1 - k
    IN  IF k > Len(SPECIAL_RULES) THEN NoTitle
        ELSE IF Search(SPECIAL_RULES[j].alts, hay)
             THEN [title |-> SPECIAL_RULES[j].title,
                   is_end |-> SPECIAL_RULES[j].is_end]
        ELSE MatchFromEnd(k + 1, hay)

\* Lines 79-82: the loop over the rules, from rule k on.
RECURSIVE MatchFrom(_, _)
MatchFrom(k, hay) ==
    IF k > Len(SPECIAL_RULES) THEN NoTitle
    ELSE IF Search(SPECIAL_RULES[k].alts, hay)
         THEN [title |-> SPECIAL_RULES[k].title,
               is_end |-> SPECIAL_RULES[k].is_end]
    ELSE MatchFrom(k + 1, hay)

\* Line 78.
Hay(topic_text, speaker_text) ==
    clean_text(topic_text) \o <<"nl">> \o clean_text(speaker_text)

match_special_title(topic_text, speaker_text) ==
    MatchFrom(1, Hay(topic_text, speaker_text))

CellChars == {" ", "wu", "xiu", "xi", "zhu", "chi", "Closing"}

CellTexts == UNION {[1..n -> CellChars] : n \in 0..MaxTextLen}

PendingTitle == [title |-> "pending", is_end |-> FALSE]

InitClassify ==
    /\ cls \in [topic_text : CellTexts, speaker_text : CellTexts,
                out : {PendingTitle}]
    /\ ForwardIdle /\ DedupeIdle /\ ParserIdle /\ LookupIdle /\ RowsIdle

Classify ==
    /\ cls.out = PendingTitle
    /\ cls' = [cls EXCEPT !.out =
                  match_special_title(cls.topic_text, cls.speaker_text)]
    /\ UNCHANGED <<forwardVars, dedupeVars, parserVars, lookupVars, rowsVars>>

NextClassify == Classify

SpecClassify == InitClassify /\ [][NextClassify]_vars

\* ------------------------------------------------------------------ C12
\* The cleaned topic text, a line break, the cleaned speaker text.
C12_Text == Strip(cls.topic_text) \o <<"nl">> \o Strip(cls.speaker_text)

\* Keyword a, whatever the case of its Latin letters, opens text t.
C12_Opens(a, t) ==
    /\ Len(a) <= Len(t)
    /\ \A i \in 1..Len(a) : Fold(t[i]) = a[i]

\* Keyword a occurs somewhere in text t.
RECURSIVE C12_Occurs(_, _)
C12_Occurs(a, t) ==
    \/ C12_Opens(a, t)
    \/ t # <<>> /\ C12_Occurs(a, Tail(t))

\* The rules of which a keyword occurs in the text.
C12_Occurring ==
    LET t == C12_Text
    IN  {k \in 1..Len(SPECIAL_RULES) :
            \E a \in SPECIAL_RULES[k].alts : C12_Occurs(a, t)}

\* C12: _match_special_title returns the (canonical title, is_end_of_day) of
\* the lowest-index rule of SPECIAL_RULES whose pattern occurs in the topic
\* and speaker text put together, and (None, False) when no rule matches; a
\* later rule never overrides an earlier matching one.
C12_FirstMatchWins ==
    cls.out # PendingTitle =>
        LET occurring == C12_Occurring
        IN  /\ occurring = {} => cls.out = NoTitle
            /\ \A k \in occurring :
                   (\A j \in occurring : k <= j) =>
                       /\ cls.out.title = SPECIAL_RULES[k].title
                       /\ cls.out.is_end = SPECIAL_RULES[k].is_end

\* The topic is a lunch break (rule 4) and the speaker cell names the host
\* (rule 7): rule 4 wins.
C12_Witness ==
    /\ cls.topic_text = <<"wu", "xiu">>
    /\ cls.speaker_text = <<"zhu", "chi">>
    /\ C12_Occurring = {4, 7}
    /\ cls.out = [title |-> "Lunch", is_end |-> FALSE]

(***************************************************************************)
(* Special-session list: scripts/actions/parse_agenda_docx.py,              *)
(* _normalize_speaker_for_compare, _special_exists, _add_special.           *)
(*                                                                         *)
(* A missing speaker (None, "" or no "speaker" key) is the empty text; a   *)
(* missing time range is the empty tuple.  "fcolon" is the full-width      *)
(* colon, "zhu" "chi" the word for host, "zhu" "chi" "ren" its long form.  *)
(***************************************************************************)
MaxCalls == 3

NoText == <<>>
NoRange == <<>>

HostWords == {"chair", "moderator"}

\* Line 105: re.sub of the host words.  At "zhu" "chi" the alternatives are
\* tried in the order of the pattern: with "ren", with the full-width colon,
\* then the bare word.
RECURSIVE RemoveHostWords(_)
RemoveHostWords(s) ==
    IF s = <<>> THEN <<>>
    ELSE IF Fold(s[1]) \in HostWords THEN RemoveHostWords(Tail(s))
    ELSE IF Len(s) >= 2 /\ s[1] = "zhu" /\ s[2] = "chi"
         THEN IF Len(s) >= 3 /\ s[3] \in {"ren", "fcolon"}
              THEN RemoveHostWords(SubSeq(s, 4, Len(s)))
              ELSE RemoveHostWords(SubSeq(s, 3, Len(s)))
    ELSE <<s[1]>> \o RemoveHostWords(Tail(s))

Punctuation == {":", "fcolon", ",", ";", "(", ")"}

\* Line 106: punctuation becomes a space.
PunctToSpace(s) == [i \in 1..Len(s) |-> IF s[i] \in Punctuation THEN " " ELSE s[i]]

\* Line 107: " ".join(cleaned.split()): runs of spaces become one space,
\* none at either end.
RECURSIVE Collapse(_)
Collapse(s) ==
    IF s = <<>> THEN <<>>
    ELSE IF s[1] = " " THEN
        (IF LStrip(s) = <<>> THEN <<>> ELSE <<" ">> \o Collapse(LStrip(s)))
    ELSE <<s[1]>> \o Collapse(Tail(s))

\* str.lower()
Lower(c) == CASE c = "A" -> "a" [] c = "B" -> "b" [] OTHER -> c

LowerText(s) == [i \in 1..Len(s) |-> Lower(s[i])]

\* Lines 101-107.
normalize_speaker_for_compare(s) ==
    IF s = NoText THEN <<>>
    ELSE LowerText(Strip(Collapse(PunctToSpace(RemoveHostWords(s)))))

\* Python's  a in b  on strings.
In(a, b) == \E i \in 1..(Len(b) - Len(a) + 1) : SubSeq(b, i, i + Len(a) - 1) = a

\* Lines 109-125.
special_exists(specials, title, speaker_norm) ==
    \E i \in 1..Len(specials) :
        /\ specials[i].title = title
        /\ LET sp_s == specials[i].speaker
               sp_norm == normalize_speaker_for_compare(sp_s)
           IN  IF speaker_norm # <<>>
               THEN In(speaker_norm, sp_norm) \/ In(sp_norm, speaker_norm)
               ELSE sp_s = NoText

\* Lines 127-146.  ret is the index of the new entry (from 0), Null for None.
add_special(specials, special_times, title, after_speaker, duration, speaker, time_rng) ==
    LET speaker_norm == normalize_speaker_for_compare(speaker)
    IN  IF special_exists(specials, title, speaker_norm)
        THEN [specials |-> specials, special_times |-> special_times, ret |-> Null]
        ELSE [specials |-> Append(specials,
                              [after_speaker |-> after_speaker, title |-> title,
                               duration |-> duration, speaker |-> speaker]),
              special_times |-> Append(special_times, time_rng),
              ret |-> Len(specials)]

SpeakerTexts ==
    {NoText, <<"a">>, <<"A">>, <<"a", "b">>, <<"b">>,
     <<"zhu", "chi", "ren">>, <<"zhu", "chi", "fcolon", "a">>}

DedupeTitles == {"Host", "Remarks"}

NoCall == [title |-> "none", speaker |-> NoText]

InitDedupe ==
    /\ dd = [specials |-> <<>>, special_times |-> <<>>, before |-> <<>>,
             call |-> NoCall, ret |-> Null, calls |-> 0]
    /\ ForwardIdle /\ ClassifyIdle /\ ParserIdle /\ LookupIdle /\ RowsIdle

AddSpecial ==
    /\ dd.calls < MaxCalls
    /\ \E title \in DedupeTitles, speaker \in SpeakerTexts :
           LET r == add_special(dd.specials, dd.special_times, title, 0, Null,
                                speaker, NoRange)
           IN  dd' = [specials |-> r.specials, special_times |-> r.special_times,
                      before |-> dd.specials,
                      call |-> [title |-> title, speaker |-> speaker],
                      ret |-> r.ret, calls |-> dd.calls + 1]
    /\ UNCHANGED <<forwardVars, classifyVars, parserVars, lookupVars, rowsVars>>

NextDedupe == AddSpecial

SpecDedupe == InitDedupe /\ [][NextDedupe]_vars

\* ------------------------------------------------------------------ C17
\* Two normalized speaker names are equal or one contains the other.
C17_Related(a, b) == a = b \/ In(a, b) \/ In(b, a)

C17_Duplicates(e, title, speaker) ==
    /\ e.title = title
    /\ C17_Related(normalize_speaker_for_compare(e.speaker),
                   normalize_speaker_for_compare(speaker))

\* C17: after any sequence of _add_special calls no two entries of the list
\* share the canonical title while their normalized speaker names are equal
\* or one contains the other; a call is suppressed (it returns None and
\* leaves the list unchanged) exactly when such an earlier entry exists, and
\* appends its entry otherwise.
C17_NoDuplicateEntries ==
    /\ \A i \in 1..Len(dd.specials), j \in 1..Len(dd.specials) :
           i < j => ~C17_Duplicates(dd.specials[i], dd.specials[j].title,
                                    dd.specials[j].speaker)
    /\ dd.calls > 0 =>
           LET dup == \E i \in 1..Len(dd.before) :
                          C17_Duplicates(dd.before[i], dd.call.title, dd.call.speaker)
           IN  /\ dup => (dd.ret = Null /\ dd.specials = dd.before)
               /\ ~dup => /\ dd.ret = Len(dd.before)
                          /\ Len(dd.specials) = Len(dd.before) + 1
                          /\ SubSeq(dd.specials, 1, Len(dd.before)) = dd.before
                          /\ dd.specials[Len(dd.specials)].title = dd.call.title
                          /\ dd.specials[Len(dd.specials)].speaker = dd.call.speaker

(***************************************************************************)
(* Agenda parser: scripts/actions/parse_agenda_docx.py, parse_agenda.       *)
(*                                                                         *)
(* A table row is [time, topic, topic_rng, speaker]: the time range        *)
(* _extract_time_range finds in the time cell (NoRange when it finds       *)
(* none), the words of the topic cell, the time range found in the topic   *)
(* cell, and the text of the speaker cell.  A time range is                *)
(* <<start, end>>, each a clock time written HH:MM with two hour digits,   *)
(* so that two times are the same string exactly when they are the same    *)
(* pair.                                                                   *)
(***************************************************************************)
MaxRows == 3

NoTime == <<>>

\* Lines 34-38.
minutes_between(a, b) ==
    IF ToMinutes(b) < ToMinutes(a)
    THEN ToMinutes(b) + 24 * 60 - ToMinutes(a)
    ELSE ToMinutes(b) - ToMinutes(a)

Whitespace == {" ", "nl"}

RECURSIVE SkipWhitespace(_)
SkipWhitespace(s) ==
    IF s # <<>> /\ s[1] \in Whitespace THEN SkipWhitespace(Tail(s)) ELSE s

\* str.strip() of a text that may hold line breaks.
RECURSIVE StripWS(_)
StripWS(s) ==
    LET t == SkipWhitespace(s)
    IN  IF t # <<>> /\ t[Len(t)] \in Whitespace
        THEN StripWS(SubSeq(t, 1, Len(t) - 1))
        ELSE t

\* s.split("\n")[0]
RECURSIVE FirstLine(_)
FirstLine(s) ==
    IF s = <<>> \/ s[1] = "nl" THEN <<>> ELSE <<s[1]>> \o FirstLine(Tail(s))

\* HOST_PATTERN (line 74): the length of the host word that opens s, 0 when
\* none does.
HostWordLen(s) ==
    IF s = <<>> THEN 0
    ELSE IF Fold(s[1]) \in HostWords THEN 1
    ELSE IF Len(s) >= 2 /\ s[1] = "zhu" /\ s[2] = "chi"
         THEN IF Len(s) >= 3 /\ s[3] \in {"ren", "fcolon"} THEN 3 ELSE 2
    ELSE 0

NameStops == {",", "nl", ";", "(", ")"}

\* (?P<name>[^,\n;()]*): the longest run without a stop character.
RECURSIVE NameRun(_)
NameRun(s) ==
    IF s = <<>> \/ s[1] \in NameStops THEN <<>> ELSE <<s[1]>> \o NameRun(Tail(s))

\* \s*[:colon]?\s* after the host word.
AfterColon(s) ==
    LET t == SkipWhitespace(s)
    IN  IF t # <<>> /\ t[1] \in {":", "fcolon"} THEN SkipWhitespace(Tail(t)) ELSE t

\* Lines 89-97: the name one match of HOST_PATTERN gives; <<>> when none.
HostName(run, speaker_text) ==
    LET name == Strip(run)
        cleaned == StripWS(RemoveHostWords(speaker_text))
    IN  IF name # <<>> THEN name
        ELSE IF cleaned # <<>> THEN Strip(FirstLine(cleaned))
        ELSE <<>>

\* Lines 84-98: finditer over the speaker text, from the suffix s on.
RECURSIVE HostNamesFrom(_, _)
HostNamesFrom(s, speaker_text) ==
    IF s = <<>> THEN <<>>
    ELSE IF HostWordLen(s) = 0 THEN HostNamesFrom(Tail(s), speaker_text)
    ELSE LET rest == AfterColon(SubSeq(s, HostWordLen(s) + 1, Len(s)))
             run == NameRun(rest)
             name == HostName(run, speaker_text)
             more == HostNamesFrom(SubSeq(rest, Len(run) + 1, Len(rest)), speaker_text)
         IN  IF name # <<>> THEN <<name>> \o more ELSE more

extract_host_names(speaker_text) == HostNamesFrom(speaker_text, speaker_text)

\* Lines 165-173: the locals of parse_agenda before the first row.
NoLocals ==
    [talks |-> <<>>, specials |-> <<>>, special_times |-> <<>>,
     timeline |-> <<>>, first_time_start |-> NoTime, last_time_end |-> NoTime,
     talk_idx |-> 0, talk_durations |-> <<>>]

\* Mutant of SeeTime: the start is overwritten by every row, like the end.
SeeLatest(L, time_rng) ==
    [L EXCEPT !.first_time_start = time_rng[1],
              !.last_time_end = time_rng[2]]

\* Lines 192-195, 222-224: the first and the last time seen.
SeeTime(L, time_rng) ==
    [L EXCEPT !.first_time_start = IF @ = NoTime THEN time_rng[1] ELSE @,
              !.last_time_end = time_rng[2]]

\* Lines 198-200 (and 206-208, 217-219, 243-245): _add_special, and the
\* timeline entry when the special session was added.
AddToTimeline(L, title, after_speaker, duration, speaker, time_rng) ==
    LET r == add_special(L.specials, L.special_times, title, after_speaker,
                         duration, speaker, time_rng)
    IN  [L EXCEPT !.specials = r.specials,
                  !.special_times = r.special_times,
                  !.timeline = IF r.ret # Null
                               THEN Append(@, <<"special", r.ret>>) ELSE @]

\* Mutant of AddHosts: a derived host entry is anchored before the first talk.
RECURSIVE AddHostsAtZero(_, _, _, _, _)
AddHostsAtZero(L, host_names, after_speaker, duration, time_rng) ==
    IF host_names = <<>> THEN L
    ELSE AddHostsAtZero(
             AddToTimeline(L, "Host", 0, duration, Head(host_names), time_rng),
             Tail(host_names), after_speaker, duration, time_rng)

\* Lines 204-208, 215-219, 241-245: for hn in host_names.
RECURSIVE AddHosts(_, _, _, _, _)
AddHosts(L, host_names, after_speaker, duration, time_rng) ==
    IF host_names = <<>> THEN L
    ELSE AddHosts(
             AddToTimeline(L, "Host", after_speaker, duration, Head(host_names),
                           time_rng),
             Tail(host_names), after_speaker, duration, time_rng)

\* Lines 189-208: a row the classifier gave a title.
SpecialBranch(L, norm_title, time_rng, speaker_text) ==
    LET duration_val == IF time_rng # NoRange
                        THEN minutes_between(time_rng[1], time_rng[2]) ELSE Null
        seen == IF time_rng # NoRange THEN SeeTime(L, time_rng) ELSE L
        anchor == IF L.talk_idx > 0 THEN L.talk_idx ELSE 0
        main == AddToTimeline(seen, norm_title, anchor, duration_val,
                              speaker_text, time_rng)
    IN  AddHosts(main, extract_host_names(speaker_text), anchor, duration_val,
                 time_rng)

\* Mutant of UntimedBranch: the row is counted as a talk.
UntimedCounted(L, speaker_text) ==
    AddHosts([L EXCEPT !.talk_idx = @ + 1], extract_host_names(speaker_text),
             L.talk_idx + 1, Null, NoRange)

\* Lines 213-220: a row without title and without time.
UntimedBranch(L, speaker_text) ==
    AddHosts(L, extract_host_names(speaker_text),
             IF L.talk_idx > 0 THEN L.talk_idx ELSE 0, Null, NoRange)

\* Lines 222-245: a talk.
TalkBranch(L, time_rng, topic_text, speaker_text) ==
    LET talk_idx == L.talk_idx + 1
        tmin == minutes_between(time_rng[1], time_rng[2])
        seen == SeeTime(L, time_rng)
        talk == [no |-> talk_idx,
                 topic |-> IF topic_text # <<>> THEN topic_text ELSE <<"unnamed">>,
                 name |-> Strip(FirstLine(speaker_text)),
                 start_time |-> time_rng[1], end_time |-> time_rng[2]]
        told == [seen EXCEPT !.talk_idx = talk_idx,
                             !.talk_durations = Append(@, tmin),
                             !.talks = Append(@, talk),
                             !.timeline = Append(@, <<"talk", talk_idx>>)]
    IN  AddHosts(told, extract_host_names(speaker_text), talk_idx, tmin, time_rng)

\* Lines 175-245: the body of the loop for one row.
ParseOneRow(L, row) ==
    LET topic_text == clean_text(row.topic)
        speaker_text == clean_text(row.speaker)
        m == match_special_title(topic_text, speaker_text)
        time_rng == IF row.time # NoRange THEN row.time ELSE row.topic_rng
    IN  IF m # NoTitle THEN SpecialBranch(L, m.title, row.time, speaker_text)
        ELSE IF time_rng = NoRange THEN UntimedBranch(L, speaker_text)
        ELSE TalkBranch(L, time_rng, topic_text, speaker_text)

\* Lines 31-32: datetime.strptime(hhmm, "%H:%M") accepts the hours 0..23 and
\* the minutes 0..59 and raises ValueError on anything else.
ValidClock(t) == t[1] \in 0..23 /\ t[2] \in 0..59

\* TIME_RE (line 14) takes any one or two digits before the colon and any two
\* after it, so a range it extracted need not be made of clock times.
\* _minutes_between is called on the range of the time cell of a special row
\* (line 191) and on the range of a talk row (line 227).
RowRaises(row) ==
    LET m == match_special_title(clean_text(row.topic), clean_text(row.speaker))
        time_rng == IF m # NoTitle \/ row.time # NoRange THEN row.time
                    ELSE row.topic_rng
    IN  /\ time_rng # NoRange
        /\ ~(ValidClock(time_rng[1]) /\ ValidClock(time_rng[2]))

\* Mutant of EndOfDayStep: the closing anchor is never written.
EndOfDayNever(L) == L

\* Mutant of EndOfDayStep: the closing anchor goes to every special session
\* of an end-of-day title, wherever it stands.
EndOfDayEverywhere(L) ==
    [L EXCEPT !.specials =
        [i \in 1..Len(L.specials) |->
            IF L.specials[i].title \in END_TITLES
            THEN [L.specials[i] EXCEPT !.after_speaker = EndOfDay]
            ELSE L.specials[i]]]

\* Lines 247-254: the closing anchor of the last item of the timeline.
EndOfDayStep(L) ==
    IF L.timeline # <<>> /\ L.timeline[Len(L.timeline)][1] = "special"
    THEN LET sidx == L.timeline[Len(L.timeline)][2] + 1
             title == L.specials[sidx].title
             tr == L.special_times[sidx]
             end_matches_day_end ==
                 tr # NoRange /\ L.last_time_end # NoTime /\ tr[2] = L.last_time_end
         IN  IF end_matches_day_end \/ title \in END_TITLES
             THEN [L EXCEPT !.specials[sidx].after_speaker = EndOfDay]
             ELSE L
    ELSE L

\* Lines 257-264: start_time and end_time of every special session.
Backfilled(specials, special_times) ==
    [i \in 1..Len(specials) |->
        [after_speaker |-> specials[i].after_speaker,
         title |-> specials[i].title,
         duration |-> specials[i].duration,
         speaker |-> specials[i].speaker,
         start_time |-> IF special_times[i] # NoRange
                        THEN special_times[i][1] ELSE NoTime,
         end_time |-> IF special_times[i] # NoRange
                      THEN special_times[i][2] ELSE NoTime]]

DefaultSpeakerMinutes == 50

Occurrences(d, durations) ==
    Cardinality({i \in 1..Len(durations) : durations[i] = d})

\* Mutant of MostCommon: of the most frequent durations the last one met.
MostCommonLast(durations) ==
    LET best == {i \in 1..Len(durations) :
                    \A j \in 1..Len(durations) :
                        Occurrences(durations[j], durations)
                            <= Occurrences(durations[i], durations)}
    IN  durations[CHOOSE i \in best : \A j \in best : j <= i]

\* Line 269: Counter(talk_durations).most_common(1)[0][0]: the counter keeps
\* the durations in the order they were first met, and the first of those
\* with the highest count is returned.
MostCommon(durations) ==
    LET best == {i \in 1..Len(durations) :
                    \A j \in 1..Len(durations) :
                        Occurrences(durations[j], durations)
                            <= Occurrences(durations[i], durations)}
    IN  durations[CHOOSE i \in best : \A j \in best : i <= j]

\* Lines 266-269.
InferSpeakerMinutes(talk_durations) ==
    IF talk_durations # <<>> THEN MostCommon(talk_durations)
    ELSE DefaultSpeakerMinutes

\* Lines 271-281.
AgendaSettings(L) ==
    [start_time |-> IF L.first_time_start = NoTime THEN <<9, 0>>
                    ELSE L.first_time_start,
     end_time |-> IF L.last_time_end = NoTime THEN <<17, 0>>
                  ELSE L.last_time_end,
     speaker_minutes |-> InferSpeakerMinutes(L.talk_durations),
     special_sessions |-> Backfilled(L.specials, L.special_times)]

\* Lines 285-293.
TalkItem(t) ==
    [type |-> "Speaker", topic |-> t.topic, name |-> t.name,
     start_time |-> t.start_time, end_time |-> t.end_time]

\* Lines 296-320.
special_to_item(sp) ==
    LET typ == CASE sp.title = "Remarks" -> "RemarksSpeaker"
                 [] sp.title \in {"Lunch", "Break"} -> "Rest"
                 [] OTHER -> sp.title
        sp_name == Strip(FirstLine(sp.speaker))
    IN  [type |-> typ, topic |-> <<sp.title>>,
         name |-> IF sp_name = <<>> /\ typ = "Discussion"
                  THEN <<"AllSpeakers">> ELSE sp_name,
         start_time |-> sp.start_time, end_time |-> sp.end_time]

Min(a, b) == IF a < b THEN a ELSE b
Max(a, b) == IF a < b THEN b ELSE a

\* list.insert(idx, item), idx counted from 0.
ListInsert(list, idx, item) ==
    SubSeq(list, 1, idx) \o <<item>> \o SubSeq(list, idx + 1, Len(list))

\* Lines 325-363: the special sessions from the k-th on go into base_list.
RECURSIVE InsertSpecials(_, _, _)
InsertSpecials(base_list, specials, k) ==
    IF k > Len(specials) THEN base_list
    ELSE LET sp == specials[k]
             item == special_to_item(sp)
             insert_idx == IF sp.after_speaker >= EndOfDay THEN Len(base_list)
                           ELSE Max(0, Min(Len(base_list), sp.after_speaker))
             existing_host == \E i \in 1..Len(base_list) :
                                  /\ base_list[i].type = "Host"
                                  /\ base_list[i].name # <<>>
         IN  IF item.type = "Host" /\ item.name = <<>> /\ existing_host
             THEN InsertSpecials(base_list, specials, k + 1)
             ELSE InsertSpecials(ListInsert(base_list, insert_idx, item),
                                 specials, k + 1)

\* Lines 365-370: the first host item goes to the front.
HostFirst(base_list) ==
    LET hosts == {i \in 1..Len(base_list) : base_list[i].type = "Host"}
    IN  IF hosts = {} THEN base_list
        ELSE LET i == CHOOSE h \in hosts : \A g \in hosts : h <= g
             IN  <<base_list[i]>> \o SubSeq(base_list, 1, i - 1)
                     \o SubSeq(base_list, i + 1, Len(base_list))

\* Lines 372-382.
SpeakersOut(base_list) ==
    [i \in 1..Len(base_list) |->
        [no |-> i - 1, type |-> base_list[i].type, topic |-> base_list[i].topic,
         name |-> base_list[i].name, start_time |-> base_list[i].start_time,
         end_time |-> base_list[i].end_time]]

\* Lines 247-402: everything after the loop.
FinishParse(L) ==
    LET F == EndOfDayStep(L)
        settings == AgendaSettings(F)
        base_list == [i \in 1..Len(F.talks) |-> TalkItem(F.talks[i])]
    IN  [agenda_settings |-> settings,
         speakers |-> SpeakersOut(HostFirst(
                          InsertSpecials(base_list, settings.special_sessions, 1)))]

Row(time, topic, topic_rng, speaker) ==
    [time |-> time, topic |-> topic, topic_rng |-> topic_rng, speaker |-> speaker]

TimeA == <<<<9, 0>>, <<9, 30>>>>
TimeB == <<<<9, 30>>, <<10, 15>>>>
\* "09:30-09:75", which TIME_RE matches.
TimeBad == <<<<9, 30>>, <<9, 75>>>>

\* The rows of the tables: talks (timed in the time cell or in the topic
\* cell, some naming a chair beside the speaker), rows without time, opening
\* remarks and closing surveys with and without time, host rows, and a talk
\* and remarks whose time cell holds a range that is no clock time.
TableRows ==
    {Row(t, <<"x">>, NoRange, s) :
        t \in {TimeA, TimeB}, s \in {<<"a">>, <<"Chair", ":", "a">>}}
    \cup {Row(NoRange, <<"x">>, TimeA, <<"a">>)}
    \cup {Row(NoRange, <<"x">>, NoRange, s) : s \in {<<>>, <<"Chair", ":", "a">>}}
    \cup {Row(t, <<"zhi", "ci">>, NoRange, s) :
            t \in {NoRange, TimeA}, s \in {<<>>, <<"zhu", "chi", "fcolon", "a">>}}
    \cup {Row(TimeB, <<"zhi", "ci">>, NoRange, <<>>)}
    \cup {Row(t, <<"wen", "juan">>, NoRange, <<>>) : t \in {NoRange, TimeB}}
    \cup {Row(NoRange, <<"zhu", "chi", "ren">>, NoRange, s) : s \in {<<>>, <<"a">>}}
    \cup {Row(NoRange, <<"zhi", "ci">>, TimeA, <<>>)}
    \cup {Row(TimeBad, <<"x">>, NoRange, <<"Chair", ":", "a">>)}
    \cup {Row(TimeBad, <<"zhi", "ci">>, NoRange, <<>>)}

Tables == UNION {[1..n -> TableRows] : n \in 0..MaxRows}

NoProgram == <<>>

\* Lines 153-173: the table is picked, the rows after the header are to be
\* walked.
ParserLoaded(tables) ==
    /\ table \in tables
    /\ loop = [i |-> 1, L |-> NoLocals]
    /\ program = NoProgram
    /\ ppc = "rows"
    /\ ForwardIdle /\ ClassifyIdle /\ DedupeIdle /\ LookupIdle /\ RowsIdle

InitParse == ParserLoaded(Tables)

\* Lines 175-245: one turn of the loop; the ValueError of strptime is caught
\* nowhere and ends parse_agenda.
ParseRow ==
    /\ ppc = "rows"
    /\ loop.i <= Len(table)
    /\ IF RowRaises(table[loop.i])
       THEN loop' = loop /\ ppc' = "raised"
       ELSE /\ loop' = [i |-> loop.i + 1,
                        L |-> ParseOneRow(loop.L, table[loop.i])]
            /\ ppc' = ppc
    /\ UNCHANGED <<table, program>>
    /\ UNCHANGED <<forwardVars, classifyVars, dedupeVars, lookupVars, rowsVars>>

\* Lines 247-402: the loop is over; loop keeps the locals as the loop left
\* them, program is what parse_agenda returns.
Finish ==
    /\ ppc = "rows"
    /\ loop.i > Len(table)
    /\ program' = FinishParse(loop.L)
    /\ ppc' = "done"
    /\ UNCHANGED <<table, loop>>
    /\ UNCHANGED <<forwardVars, classifyVars, dedupeVars, lookupVars, rowsVars>>

NextParse == ParseRow \/ Finish

SpecParse == InitParse /\ [][NextParse]_vars

\* The table of the forward scenario: opening remarks 09:00-09:10, four
\* talks of 30 minutes, the closing survey 11:10-12:00, the two sessions
\* under any of the names the classifier knows them by.
ScenarioTalkTimes ==
    << <<<<9, 10>>, <<9, 40>>>>, <<<<9, 40>>, <<10, 10>>>>,
       <<<<10, 10>>, <<10, 40>>>>, <<<<10, 40>>, <<11, 10>>>> >>

ScenarioTables ==
    {<<Row(<<<<9, 0>>, <<9, 10>>>>, opening, NoRange, by)>>
        \o [k \in 1..4 |-> Row(ScenarioTalkTimes[k], <<"x">>, NoRange, names[k])]
        \o <<Row(<<<<11, 10>>, <<12, 0>>>>, closing, NoRange, <<>>)>> :
        opening \in {<<"zhi", "ci">>, <<"kai", "chang">>},
        by \in {<<>>, <<"a">>},
        names \in [1..4 -> {<<"a">>, <<"b">>}],
        closing \in {<<"wen", "juan", "yu", "hou", "ce">>, <<"wen", "juan">>,
                     <<"Closing">>}}

InitParseScenario == ParserLoaded(ScenarioTables)

SpecParseScenario == InitParseScenario /\ [][NextParse]_vars

\* ------------------------------------------------------------------ C13
\* The special sessions parse_agenda returns, and the timeline of the loop.
C13_Out == program.agenda_settings.special_sessions

C13_LastOfTimeline(i) ==
    /\ loop.L.timeline # <<>>
    /\ loop.L.timeline[Len(loop.L.timeline)] = <<"special", i - 1>>

C13_Closes(i) ==
    \/ /\ C13_Out[i].end_time # NoTime
       /\ C13_Out[i].end_time = loop.L.last_time_end
    \/ C13_Out[i].title \in END_TITLES

\* C13: after_speaker becomes 999 only in the final step and only on the
\* last item added to the timeline, and it does so if and only if that item
\* is a special session whose end time equals the last-seen end time or
\* whose canonical title is tagged end-of-day; at most one special session
\* of the output has 999, and none when the last timeline item is a talk.
C13_EndOfDayOnlyOnLastItem ==
    /\ \A i \in 1..Len(loop.L.specials) :
           loop.L.specials[i].after_speaker # EndOfDay
    /\ ppc = "done" =>
           /\ Len(C13_Out) = Len(loop.L.specials)
           /\ \A i \in 1..Len(C13_Out) :
                  /\ C13_Out[i].after_speaker = EndOfDay
                        <=> (C13_LastOfTimeline(i) /\ C13_Closes(i))
                  /\ C13_Out[i].after_speaker # EndOfDay =>
                        C13_Out[i].after_speaker = loop.L.specials[i].after_speaker
           /\ Cardinality({i \in 1..Len(C13_Out) :
                              C13_Out[i].after_speaker = EndOfDay}) <= 1
           /\ (loop.L.timeline # <<>>
                 /\ loop.L.timeline[Len(loop.L.timeline)][1] = "talk") =>
                  \A i \in 1..Len(C13_Out) : C13_Out[i].after_speaker # EndOfDay

\* A talk, then remarks 09:30-10:15 whose end is the last end seen: the
\* remarks, of a title that is not end-of-day, are anchored at 999; they were
\* anchored after talk 1 when the loop ended.
C13_Witness ==
    /\ ppc = "done"
    /\ Len(loop.L.talks) = 1
    /\ Len(C13_Out) = 1
    /\ C13_Out[1].title = "Remarks"
    /\ C13_Out[1].end_time = <<10, 15>>
    /\ loop.L.specials[1].after_speaker = 1
    /\ C13_Out[1].after_speaker = EndOfDay

\* The remarks 09:00-09:30 are the last item of the timeline, but a later
\* row (remarks again, suppressed as a duplicate) moved the last end seen to
\* 10:15: the remarks keep their anchor.
C13_WitnessKept ==
    /\ ppc = "done"
    /\ Len(C13_Out) = 1
    /\ C13_Out[1].end_time = <<9, 30>>
    /\ loop.L.last_time_end = <<10, 15>>
    /\ C13_LastOfTimeline(1)
    /\ C13_Out[1].after_speaker = 0

\* ------------------------------------------------------------------ C14
\* The durations of the parsed talks, in row order.
C14_Durations ==
    [k \in 1..Len(loop.L.talks) |->
        minutes_between(loop.L.talks[k].start_time, loop.L.talks[k].end_time)]

C14_Count(d) ==
    Cardinality({k \in 1..Len(C14_Durations) : C14_Durations[k] = d})

\* C14: speaker_minutes is the most frequent duration of the parsed talks;
\* when several durations share the highest frequency it is the one met
\* first in row order ([30,30,45] gives 30, [30,45] gives 30); it is 50 when
\* no talk was parsed.
C14_ModeFirstEncountered ==
    ppc = "done" =>
        LET sm == program.agenda_settings.speaker_minutes
            D == C14_Durations
        IN  /\ D = <<>> => sm = 50
            /\ D # <<>> =>
                   \E i \in 1..Len(D) :
                       /\ sm = D[i]
                       /\ \A j \in 1..Len(D) : C14_Count(D[j]) <= C14_Count(D[i])
                       /\ \A j \in 1..(i - 1) : C14_Count(D[j]) < C14_Count(D[i])
            /\ D = <<30, 30, 45>> => sm = 30
            /\ D = <<30, 45>> => sm = 30

\* Two talks of 30 and 45 minutes, in this order: a tie, 30 is returned.
C14_Witness ==
    /\ ppc = "done"
    /\ C14_Durations = <<30, 45>>
    /\ program.agenda_settings.speaker_minutes = 30

\* ------------------------------------------------------------------ C15
\* The time range of row k: that of the time cell; a talk row (a row the
\* classifier gives no title) without one takes that of its topic cell.
C15_RangeOfRow(k) ==
    IF match_special_title(table[k].topic, table[k].speaker) # NoTitle
        \/ table[k].time # NoRange
    THEN table[k].time
    ELSE table[k].topic_rng

\* The rows that carry a time range.
C15_Timed == {k \in 1..Len(table) : C15_RangeOfRow(k) # NoRange}

\* C15: start_time is the start of the first time range observed in row
\* order on a talk or a timed special row, end_time the end of the last one;
\* they are 09:00 and 17:00 when no row carried a time range.
C15_FirstStartLastEnd ==
    ppc = "done" =>
        /\ C15_Timed = {} =>
               /\ program.agenda_settings.start_time = <<9, 0>>
               /\ program.agenda_settings.end_time = <<17, 0>>
        /\ \A k \in C15_Timed :
               /\ (\A j \in C15_Timed : k <= j) =>
                      program.agenda_settings.start_time = C15_RangeOfRow(k)[1]
               /\ (\A j \in C15_Timed : j <= k) =>
                      program.agenda_settings.end_time = C15_RangeOfRow(k)[2]

\* Untimed remarks, the talk 09:30-10:15, then a talk 09:00-09:30: the day
\* starts at 09:30 and ends at 09:30, the times of the first and of the last
\* range in row order.
C15_Witness ==
    /\ ppc = "done"
    /\ Len(table) = 3
    /\ C15_Timed = {2, 3}
    /\ match_special_title(table[1].topic, table[1].speaker) # NoTitle
    /\ program.agenda_settings.start_time = <<9, 30>>
    /\ program.agenda_settings.end_time = <<9, 30>>

\* ------------------------------------------------------------------ C16
\* The talks among the speakers parse_agenda returns.
C16_Talks ==
    SelectSeq(program.speakers, LAMBDA s : s.type = "Speaker")

\* C16: parsing the six-row table of the forward scenario (opening remarks
\* 09:00-09:10, four talks of 30 minutes, closing survey 11:10-12:00) yields
\* speaker_minutes 30, start_time 09:00, end_time 12:00, four talks numbered
\* 1..4 with their original times, and exactly two special sessions, of 10
\* and 50 minutes, the first anchored at 0 and the trailing one at 999.
C16_RoundTrip ==
    ppc = "done" =>
        LET settings == program.agenda_settings
            sessions == settings.special_sessions
        IN  /\ settings.speaker_minutes = 30
            /\ settings.start_time = <<9, 0>>
            /\ settings.end_time = <<12, 0>>
            /\ Len(C16_Talks) = 4
            /\ \A k \in 1..4 :
                   /\ C16_Talks[k].no = k
                   /\ C16_Talks[k].start_time = table[k + 1].time[1]
                   /\ C16_Talks[k].end_time = table[k + 1].time[2]
                   /\ C16_Talks[k].name = table[k + 1].speaker
                   /\ loop.L.talks[k].no = k
            /\ Len(sessions) = 2
            /\ sessions[1].duration = 10 /\ sessions[1].after_speaker = 0
            /\ sessions[1].title = "Remarks"
            /\ sessions[2].duration = 50 /\ sessions[2].after_speaker = EndOfDay
            /\ sessions[2].title = "Survey"
            /\ Len(program.speakers) = 6

\* The table was parsed to its end: the remarks come first and the survey
\* last in the returned speakers, the survey having been anchored after talk
\* 4 until the final step.
C16_Witness ==
    /\ ppc = "done"
    /\ Len(table) = 6
    /\ program.speakers[1].type = "RemarksSpeaker"
    /\ program.speakers[6].type = "Survey"
    /\ loop.L.specials[2].after_speaker = 4
    /\ program.agenda_settings.special_sessions[2].after_speaker = EndOfDay

\* ------------------------------------------------------------------ C20
\* C20: every special session created from a row, a derived host entry
\* included, is appended with after_speaker equal to the number of talks
\* parsed so far (0 when there is none yet); hence before the final
\* end-of-day step every after_speaker lies in 0..(number of talks) and the
\* anchors do not decrease along the special-session list.
C20_AnchoredAtTalkCount ==
    /\ [](\A i \in 1..Len(loop.L.specials) :
              /\ loop.L.specials[i].after_speaker \in 0..Len(loop.L.talks)
              /\ i > 1 => loop.L.specials[i - 1].after_speaker
                              <= loop.L.specials[i].after_speaker)
    /\ [][loop' # loop =>
             /\ Len(loop'.L.specials) >= Len(loop.L.specials)
             /\ \A i \in 1..Len(loop'.L.specials) :
                    IF i <= Len(loop.L.specials)
                    THEN loop'.L.specials[i] = loop.L.specials[i]
                    ELSE loop'.L.specials[i].after_speaker = Len(loop'.L.talks)]_vars

\* The loop is over and the final step has not run: remarks before the
\* first talk, the host named beside the speaker of talk 1, a survey after
\* it, anchored at 0, 1 and 1.
C20_Witness ==
    /\ ppc = "rows"
    /\ loop.i = Len(table) + 1
    /\ Len(loop.L.talks) = 1
    /\ Len(loop.L.specials) = 3
    /\ loop.L.specials[1].after_speaker = 0
    /\ loop.L.specials[2].title = "Host"
    /\ loop.L.specials[2].after_speaker = 1
    /\ loop.L.specials[3].after_speaker = 1

\* ------------------------------------------------------------------ C27
\* The rows generate_agenda built from the i-th special session.
C27_RowsOf(i) ==
    {p \in 1..Len(agenda) :
        /\ IsSpecial(agenda[p])
        /\ agenda[p].session_title = given.special_sessions[i].title}

\* The special sessions anchored at 0, at 999 or at a speaker's number.
C27_Placed ==
    {i \in 1..Len(given.special_sessions) :
        given.special_sessions[i].after_speaker \in {0, EndOfDay} \cup SpeakerNumbers}

\* C27: when the speaker numbers are distinct and lie in 1..998,
\* generate_agenda emits each entry of config.special_sessions at most once,
\* and exactly once when its after_speaker is 0, 999 or the number of a
\* speaker of the list; the output then has len(speakers) rows plus one row
\* for each such session.
C27_NoneLostNoneDuplicated ==
    (/\ pc = "done"
     /\ Cardinality(SpeakerNumbers) = Len(speakers)
     /\ SpeakerNumbers \subseteq 1..998) =>
        /\ \A i \in 1..Len(given.special_sessions) :
               Cardinality(C27_RowsOf(i)) = (IF i \in C27_Placed THEN 1 ELSE 0)
        /\ Len(agenda) = Len(speakers) + Cardinality(C27_Placed)

\* Speakers 2 and 1 in this order and two sessions after speaker 1: four
\* rows, the two sessions last.
C27_Witness ==
    /\ pc = "done"
    /\ Len(speakers) = 2
    /\ speakers[1].index = 2 /\ speakers[2].index = 1
    /\ Len(given.special_sessions) = 2
    /\ given.special_sessions[1].after_speaker = 1
    /\ given.special_sessions[2].after_speaker = 1
    /\ Len(agenda) = 4
    /\ IsSpecial(agenda[3]) /\ IsSpecial(agenda[4])

\* A session anchored at a number no speaker has is not emitted.
C27_WitnessUnplaced ==
    /\ pc = "done"
    /\ Len(speakers) = 1 /\ speakers[1].index = 1
    /\ Len(given.special_sessions) = 2
    /\ C27_Placed = {1}
    /\ Len(agenda) = 2

\* ------------------------------------------------------------------ C28
\* The sessions of the loaded config without a duration: null only, and null
\* or 0 as the allocator takes them.
C28_NullSessions ==
    {i \in 1..Len(given.special_sessions) : given.special_sessions[i].duration = Null}

C28_EmptySessions ==
    {i \in 1..Len(given.special_sessions) : IsEmpty(given.special_sessions[i])}

RECURSIVE C28_Sum(_)
C28_Sum(S) ==
    IF S = {} THEN 0
    ELSE LET i == CHOOSE x \in S : TRUE
         IN  config.special_sessions[i].duration + C28_Sum(S \ {i})

C28_LastEnd == ToMinutes(agenda[Len(agenda)].end_time)

\* C28 as claimed: whenever remaining >= 0 on entry to
\* distribute_empty_durations, the durations it assigns to the null-duration
\* sessions sum to at most remaining, and the last row generate_agenda
\* composes ends no later than config.end_time.
C28_NeverOverruns ==
    (pc \in {"allocated", "done"} /\ Remaining(given, Len(speakers)) >= 0) =>
        /\ C28_Sum(C28_NullSessions) <= Remaining(given, Len(speakers))
        /\ (pc = "done" /\ agenda # <<>>) =>
               C28_LastEnd <= ToMinutes(given.end_time)

\* C28 (amended): whenever remaining >= 0 on entry, each of the k sessions
\* without a duration (null or 0) gets round(remaining / k), so that the
\* durations assigned sum to k * round(remaining / k), which exceeds
\* remaining by at most k / 2; when this sum is at most remaining and no
\* special session is anchored at more than one insertion point, the last
\* row generate_agenda composes ends no later than config.end_time.
C28_OverrunsByRoundingOnly ==
    (pc \in {"allocated", "done"} /\ Remaining(given, Len(speakers)) >= 0) =>
        LET r == Remaining(given, Len(speakers))
            k == Cardinality(C28_EmptySessions)
            assigned == C28_Sum(C28_EmptySessions)
        IN  /\ k > 0 => assigned = k * PyRound(r, k)
            /\ 2 * assigned <= 2 * r + k
            /\ \A i \in 1..Len(given.special_sessions) :
                   i \notin C28_EmptySessions =>
                       config.special_sessions[i] = given.special_sessions[i]
            /\ (/\ pc = "done" /\ agenda # <<>>
                /\ assigned <= r
                /\ \A i \in 1..Len(given.special_sessions) :
                       PointsAt(given.special_sessions[i].after_speaker) <= 1) =>
                   C28_LastEnd <= ToMinutes(given.end_time)

\* 25 minutes remain for two sessions without duration, each anchored once:
\* each gets round(12.5) = 12, and the last row ends a minute before
\* end_time.
C28_Witness ==
    /\ pc = "done"
    /\ Remaining(given, Len(speakers)) = 25
    /\ C28_NullSessions = {1, 2}
    /\ C28_Sum(C28_NullSessions) = 24
    /\ Len(agenda) = 3
    /\ C28_LastEnd = ToMinutes(given.end_time) - 1

\* 15 minutes remain for two sessions without duration: each gets 8, one
\* minute more than there is, and the last row ends after end_time.
C28_WitnessOverrun ==
    /\ pc = "done"
    /\ Remaining(given, Len(speakers)) = 15
    /\ C28_NullSessions = {1, 2}
    /\ C28_Sum(C28_NullSessions) = 16
    /\ Len(agenda) = 3
    /\ C28_LastEnd = ToMinutes(given.end_time) + 1

\* ------------------------------------------------ C30: the three timers
\* The speaker numbers are distinct integers starting at 1.
C30_NumberedFromOne ==
    /\ Cardinality(SpeakerNumbers) = Len(speakers)
    /\ SpeakerNumbers = 1..Len(speakers)

C30_NoNullDuration ==
    \A i \in 1..Len(config.special_sessions) :
        config.special_sessions[i].duration # Null

\* The start and end generate_agenda gave the talk of list position j.
C30_TalkTimes(j) == <<TalkRows[j].start_time, TalkRows[j].end_time>>

\* C30: for settings whose sessions all have a duration and speakers
\* numbered with distinct integers starting at 1, compute_times,
\* compute_speaker_times and generate_agenda give every speaker the same
\* start and end time.
C30_TimersAgree ==
    (pc = "timed" /\ C30_NumberedFromOne /\ C30_NoNullDuration) =>
        /\ Len(TalkRows) = Len(speakers)
        /\ \A j \in 1..Len(speakers) :
               LET no == speakers[j].index
               IN  /\ no \in DOMAIN times.build_mapping
                   /\ no \in DOMAIN times.speaker_letters
                   /\ times.build_mapping[no] = C30_TalkTimes(j)
                   /\ times.speaker_letters[no] = C30_TalkTimes(j)

\* Two speakers timed, with a session before the first talk and one between
\* the talks, both of which move the second talk.
C30_Witness ==
    /\ pc = "timed"
    /\ C30_NumberedFromOne
    /\ Len(speakers) = 2
    /\ Len(config.special_sessions) = 2
    /\ config.special_sessions[1].after_speaker = 0
    /\ config.special_sessions[1].duration = 10
    /\ config.special_sessions[2].after_speaker = speakers[1].index
    /\ config.special_sessions[2].duration = 10
    /\ times.build_mapping[speakers[2].index] = C30_TalkTimes(2)
    /\ ToMinutes(C30_TalkTimes(2)[1]) =
           ToMinutes(config.start_time) + 20 + config.speaker_minutes

\* ------------------------------------- generate_agenda.py: gen_agenda_rows
\* The rows of the printed agenda, built from speakers that already carry
\* their start and end time.  A row's "time" text "HH:MM-HH:MM" is kept as its
\* two clock times.
GaRow(kind, start, ending, title) ==
    [kind |-> kind, start |-> start, end |-> ending, title |-> title]

\* Lines 62, 100-104: the first speaker of the list with a start time, and the
\* last with an end time (0 when there is none).
FirstTimed(spk) ==
    LET S == {j \in 1..Len(spk) : spk[j].start_time # NoTime}
    IN  IF S = {} THEN 0 ELSE CHOOSE j \in S : \A k \in S : j <= k

LastEnded(spk) ==
    LET S == {j \in 1..Len(spk) : spk[j].end_time # NoTime}
    IN  IF S = {} THEN 0 ELSE CHOOSE j \in S : \A k \in S : j >= k

\* Lines 65-74: every session anchored at 0 is placed so that it ends where
\* the first talk starts.  int(None) raises TypeError.
RECURSIVE GaOpening(_, _, _)
GaOpening(specials, first_start, st) ==
    IF ~st.ok \/ specials = <<>> THEN st
    ELSE LET s == Head(specials)
         IN  IF s.after_speaker # 0
             THEN GaOpening(Tail(specials), first_start, st)
             ELSE IF s.duration = Null THEN [st EXCEPT !.ok = FALSE]
             ELSE GaOpening(Tail(specials), first_start,
                      [st EXCEPT !.rows = Append(@,
                          GaRow("special", Strftime(first_start - s.duration),
                                Strftime(first_start), s.title))])

\* Lines 88-97: every session anchored at the speaker's number starts at the
\* end of that speaker's talk.
RECURSIVE GaAfter(_, _, _, _)
GaAfter(specials, no, ending, st) ==
    IF ~st.ok \/ specials = <<>> THEN st
    ELSE LET s == Head(specials)
         IN  IF s.after_speaker # no
             THEN GaAfter(Tail(specials), no, ending, st)
             ELSE IF s.duration = Null THEN [st EXCEPT !.ok = FALSE]
             ELSE GaAfter(Tail(specials), no, ending,
                      [st EXCEPT !.rows = Append(@,
                          GaRow("special", Strftime(ending),
                                Strftime(ending + s.duration), s.title))])

\* Lines 77-97: a speaker without start or end time is left out; the others
\* give a talk row at their own times, followed by their sessions.
RECURSIVE GaSpeakers(_, _, _)
GaSpeakers(spk, specials, st) ==
    IF ~st.ok \/ spk = <<>> THEN st
    ELSE LET sp == Head(spk)
         IN  IF sp.start_time = NoTime \/ sp.end_time = NoTime
             THEN GaSpeakers(Tail(spk), specials, st)
             ELSE GaSpeakers(Tail(spk), specials,
                      GaAfter(specials, sp.no, ToMinutes(sp.end_time),
                          [st EXCEPT !.rows = Append(@,
                              GaRow("talk", sp.start_time, sp.end_time,
                                    sp.topic))]))

\* Lines 105-115: the sessions anchored at 999 follow one another from the
\* last talk's end.
RECURSIVE GaClosing(_, _, _)
GaClosing(specials, last_end, st) ==
    IF ~st.ok \/ specials = <<>> THEN st
    ELSE LET s == Head(specials)
         IN  IF s.after_speaker # EndOfDay
             THEN GaClosing(Tail(specials), last_end, st)
             ELSE IF s.duration = Null THEN [st EXCEPT !.ok = FALSE]
             ELSE GaClosing(Tail(specials), last_end + s.duration,
                      [st EXCEPT !.rows = Append(@,
                          GaRow("special", Strftime(last_end),
                                Strftime(last_end + s.duration), s.title))])

\* gen_agenda_rows(event): the rows built and whether the call returned.
gen_agenda_rows(event) ==
    LET specials == event.agenda_settings.special_sessions
        spk == event.speakers
        f == FirstTimed(spk)
        l == LastEnded(spk)
        opening == IF f = 0 THEN [rows |-> <<>>, ok |-> TRUE]
                   ELSE GaOpening(specials, ToMinutes(spk[f].start_time),
                                  [rows |-> <<>>, ok |-> TRUE])
        body == GaSpeakers(spk, specials, opening)
    IN  IF l = 0 THEN body
        ELSE GaClosing(specials, ToMinutes(spk[l].end_time), body)

\* The events: speakers numbered 1 and 2, each without times or at one of
\* three times of the morning, and the sessions of the configs above.
TalkTimes ==
    {<<NoTime, NoTime>>, <<<<9, 0>>, <<9, 30>>>>, <<<<9, 30>>, <<10, 0>>>>,
     <<<<9, 40>>, <<10, 10>>>>}

TimedSpeakers ==
    {[no |-> n, topic |-> "Talk", start_time |-> t[1], end_time |-> t[2]] :
        n \in {1, 2}, t \in TalkTimes}

TimedSpeakerLists == UNION {[1..k -> TimedSpeakers] : k \in 0..MaxSpeakers}

InitRows ==
    /\ ga \in [event : [agenda_settings : [special_sessions : SessionLists],
                        speakers : TimedSpeakerLists],
                rows : {<<>>}, state : {"called"}]
    /\ ForwardIdle /\ ClassifyIdle /\ DedupeIdle /\ ParserIdle /\ LookupIdle

\* Line 212: rows = gen_agenda_rows(event).
GenRows ==
    /\ ga.state = "called"
    /\ LET r == gen_agenda_rows(ga.event)
       IN  ga' = [ga EXCEPT !.rows = r.rows,
                            !.state = IF r.ok THEN "returned" ELSE "raised"]
    /\ UNCHANGED <<forwardVars, classifyVars, dedupeVars, parserVars, lookupVars>>

NextRows == GenRows

SpecRows == InitRows /\ [][NextRows]_vars

\* The talks of the event are themselves in order: each timed speaker starts
\* no earlier than the timed speaker before it ended.
C26_SpeakersInOrder ==
    \A j, k \in 1..Len(ga.event.speakers) :
        LET a == ga.event.speakers[j]
            b == ga.event.speakers[k]
        IN  (j < k /\ a.end_time # NoTime /\ b.start_time # NoTime) =>
                ToMinutes(a.end_time) <= ToMinutes(b.start_time)

\* C26: the rows gen_agenda_rows built from speakers timed in order are
\* chronological without overlap: no row starts earlier than the row before
\* it ended, also when several sessions share the anchor 0 or the same
\* after_speaker number.
C26_RowsChronological ==
    (ga.state = "returned" /\ C26_SpeakersInOrder) =>
        \A p \in 2..Len(ga.rows) :
            ToMinutes(ga.rows[p].start) >= ToMinutes(ga.rows[p - 1].end)

\* ------------------------------------------------------------------ C22
\* The row matches no rule and has no time range in its time cell or in its
\* topic cell.
C22_Skipped(row) ==
    /\ match_special_title(clean_text(row.topic), clean_text(row.speaker)) = NoTitle
    /\ row.time = NoRange
    /\ row.topic_rng = NoRange

\* C22: a row that matches no rule and carries no time range in the time or
\* topic cell is skipped: the talk counter, the talk list, the talk durations
\* and the first and last times stay as they were, and the only effect it can
\* have is to append host entries with a null duration, anchored at the
\* current talk number.
C22_UntimedRowSkipped ==
    [][(ppc = "rows" /\ loop.i <= Len(table) /\ C22_Skipped(table[loop.i])
            /\ loop' # loop) =>
          /\ loop'.L.talk_idx = loop.L.talk_idx
          /\ loop'.L.talks = loop.L.talks
          /\ loop'.L.talk_durations = loop.L.talk_durations
          /\ loop'.L.first_time_start = loop.L.first_time_start
          /\ loop'.L.last_time_end = loop.L.last_time_end
          /\ Len(loop'.L.specials) >= Len(loop.L.specials)
          /\ \A i \in 1..Len(loop'.L.specials) :
                 IF i <= Len(loop.L.specials)
                 THEN loop'.L.specials[i] = loop.L.specials[i]
                 ELSE /\ loop'.L.specials[i].title = "Host"
                      /\ loop'.L.specials[i].duration = Null
                      /\ loop'.L.specials[i].after_speaker = loop.L.talk_idx
          /\ Len(loop'.L.timeline) - Len(loop.L.timeline)
                 = Len(loop'.L.specials) - Len(loop.L.specials)]_vars

\* A talk, then a row without time naming a chair: the row left one talk and
\* the times of that talk, and added the host with a null duration after
\* talk 1.
C22_Witness ==
    /\ ppc = "rows"
    /\ loop.i = 3
    /\ ~C22_Skipped(table[1])
    /\ C22_Skipped(table[2])
    /\ loop.L.talk_idx = 1
    /\ Len(loop.L.talks) = 1
    /\ loop.L.last_time_end = loop.L.talks[1].end_time
    /\ Len(loop.L.specials) = 1
    /\ loop.L.specials[1].title = "Host"
    /\ loop.L.specials[1].duration = Null
    /\ loop.L.specials[1].after_speaker = 1

\* ------------------------------------------------------------------ C24
\* C24: for every row, special or talk, whose time cell holds no range while
\* its topic cell does, the range of the topic cell is the row's time range:
\* it updates the first and last observed times, a talk gets it as its start
\* and end, and every special session the row adds gets its length as a
\* non-null duration.
C24_TopicRangeUsed ==
    [][(ppc = "rows" /\ loop.i <= Len(table) /\ loop' # loop
            /\ table[loop.i].time = NoRange
            /\ table[loop.i].topic_rng # NoRange) =>
          LET rng == table[loop.i].topic_rng
          IN  /\ loop'.L.last_time_end = rng[2]
              /\ loop'.L.first_time_start =
                     IF loop.L.first_time_start = NoTime THEN rng[1]
                     ELSE loop.L.first_time_start
              /\ \A i \in (Len(loop.L.specials) + 1)..Len(loop'.L.specials) :
                     loop'.L.specials[i].duration = minutes_between(rng[1], rng[2])
              /\ \A k \in (Len(loop.L.talks) + 1)..Len(loop'.L.talks) :
                     /\ loop'.L.talks[k].start_time = rng[1]
                     /\ loop'.L.talks[k].end_time = rng[2]]_vars

\* ------------------------------------------------------------------ C21
C21_Sessions == program.agenda_settings.special_sessions

C21_IsHost(sp) == sp.title = "Host"
C21_Named(sp) ==
    C21_IsHost(sp) /\ normalize_speaker_for_compare(sp.speaker) # <<>>
C21_Nameless(sp) ==
    C21_IsHost(sp) /\ normalize_speaker_for_compare(sp.speaker) = <<>>

\* The host names a row gives: the speaker cell of a row classified as host,
\* and the names following a host word in any speaker cell.
C21_NamesOf(row) ==
    LET speaker_text == clean_text(row.speaker)
        m == match_special_title(clean_text(row.topic), speaker_text)
        hn == extract_host_names(speaker_text)
    IN  {n \in ({speaker_text} \cup {hn[k] : k \in 1..Len(hn)}) :
            /\ normalize_speaker_for_compare(n) # <<>>
            /\ \/ \E k \in 1..Len(hn) : hn[k] = n
               \/ (m # NoTitle /\ m.title = "Host")}

\* No host entry without a name follows a host entry with a name in
\* special_sessions.
C21_NoNamelessAfterNamed ==
    \A i, j \in 1..Len(C21_Sessions) :
        i < j => ~(C21_Named(C21_Sessions[i]) /\ C21_Nameless(C21_Sessions[j]))

\* The speakers list holds a nameless host item for no anonymous host that
\* was produced after a named one.
C21_SpeakersListClean ==
    Cardinality({p \in 1..Len(program.speakers) :
                    /\ program.speakers[p].type = "Host"
                    /\ program.speakers[p].name = <<>>})
        <= Cardinality({j \in 1..Len(C21_Sessions) :
                    /\ C21_Nameless(C21_Sessions[j])
                    /\ \A i \in 1..(j - 1) : ~C21_Named(C21_Sessions[i])})

\* Every host a row names is recorded, whatever came before it.
C21_NamedRecorded ==
    \A r \in 1..Len(table) : \A n \in C21_NamesOf(table[r]) :
        \E i \in 1..Len(C21_Sessions) :
            /\ C21_Named(C21_Sessions[i])
            /\ C17_Related(normalize_speaker_for_compare(C21_Sessions[i].speaker),
                           normalize_speaker_for_compare(n))

\* C21: in the result of parse_agenda no host entry without a name was
\* produced after a host entry with a name, neither in special_sessions nor in
\* the speakers list, and a named host that follows an anonymous host is
\* still recorded.
C21_AnonymousHostSuppressed ==
    ppc = "done" =>
        /\ C21_NoNamelessAfterNamed
        /\ C21_SpeakersListClean
        /\ C21_NamedRecorded

\* ------------------------------------------------------------------ C25
\* The Speaker records of the returned list, in list order.
C25_SpeakerRecords == SelectSeq(program.speakers, LAMBDA it : it.type = "Speaker")

\* The returned record is the one of the talk the loop numbered k.
C25_IsTalk(it, k) ==
    /\ it.type = "Speaker"
    /\ it.topic = loop.L.talks[k].topic
    /\ it.name = loop.L.talks[k].name
    /\ it.start_time = loop.L.talks[k].start_time
    /\ it.end_time = loop.L.talks[k].end_time

\* C25: the k-th row treated as a talk yields a Speaker record whose no is k,
\* counting talks only from 1, so the no values are unique and strictly
\* increasing in agenda order, and every anchor N in 1..998 of a special
\* session is the no of the record of the talk that directly preceded it in
\* the table, whatever special and host items are merged into the list.
C25_TalkNumbering ==
    ppc = "done" =>
        /\ Len(C25_SpeakerRecords) = Len(loop.L.talks)
        /\ \A k \in 1..Len(C25_SpeakerRecords) :
               /\ C25_IsTalk(C25_SpeakerRecords[k], k)
               /\ C25_SpeakerRecords[k].no = k
        /\ \A i \in 1..Len(program.agenda_settings.special_sessions) :
               LET N == program.agenda_settings.special_sessions[i].after_speaker
               IN  (N >= 1 /\ N < EndOfDay) =>
                       \E p \in 1..Len(program.speakers) :
                           /\ program.speakers[p].no = N
                           /\ C25_IsTalk(program.speakers[p], N)

\* ------------------------------------------------------------------ C29
\* The positions of the returned list that hold special or host items, the
\* host moved to index 0 left aside.
C29_Merged ==
    {p \in 1..Len(program.speakers) :
        /\ program.speakers[p].type # "Speaker"
        /\ ~(p = 1 /\ program.speakers[p].type = "Host")}

\* The item at position p was made from the i-th special session.
C29_From(i, p) ==
    LET item == special_to_item(program.agenda_settings.special_sessions[i])
        it == program.speakers[p]
    IN  /\ it.type = item.type /\ it.topic = item.topic /\ it.name = item.name
        /\ it.start_time = item.start_time /\ it.end_time = item.end_time

C29_TalksBefore(p) ==
    Cardinality({q \in 1..(p - 1) : program.speakers[q].type = "Speaker"})

\* The number of talks a session's anchor puts before it.
C29_AnchorOf(i) ==
    LET N == program.agenda_settings.special_sessions[i].after_speaker
    IN  IF N >= EndOfDay THEN Len(loop.L.talks) ELSE N

\* C29: apart from the first host item moved to index 0, the returned
\* speakers list keeps the order of the table: the talks in their order, each
\* item of a special session anchored after talk N after the N-th talk and
\* before the (N+1)-th, and the items of special sessions in the order of
\* their rows.
C29_TableOrderKept ==
    ppc = "done" =>
        /\ \A k \in 1..Len(C25_SpeakerRecords) :
               C25_IsTalk(C25_SpeakerRecords[k], k)
        /\ \A p \in C29_Merged :
               \E i \in 1..Len(program.agenda_settings.special_sessions) :
                   C29_From(i, p) /\ C29_TalksBefore(p) = C29_AnchorOf(i)
        /\ \A p, q \in C29_Merged :
               p < q =>
                   \E i, j \in 1..Len(program.agenda_settings.special_sessions) :
                       i < j /\ C29_From(i, p) /\ C29_From(j, q)

\* ------------------------------------------------------------------ C23
\* The time cell of the row has the shape of a range without being made of
\* clock times.
C23_Malformed(row) ==
    /\ row.time # NoRange
    /\ ~(ValidClock(row.time[1]) /\ ValidClock(row.time[2]))

\* C23: a malformed time value is recoverable: on every table, rows whose
\* time text is shaped like a range of no valid clock times included,
\* parse_agenda completes without raising, and such a row is treated as a row
\* whose time cell holds no range (a row without title and time is skipped,
\* its host names still being extracted).
C23_MalformedTimeRecovered ==
    /\ [](ppc # "raised")
    /\ [][(ppc = "rows" /\ loop.i <= Len(table)
              /\ C23_Malformed(table[loop.i])) =>
            /\ loop'.i = loop.i + 1
            /\ loop'.L = ParseOneRow(loop.L,
                                     [table[loop.i] EXCEPT !.time = NoRange])]_vars

====
